---------------------------- MODULE Spec2Model ----------------------------
(***************************************************************************)
(* A state-machine model of the window-management core of dwm (src/dwm.c). *)
(*                                                                         *)
(* The program state is the monitor list, the managed clients, the         *)
(* selected monitor and the root-window properties the core maintains.     *)
(* Every event handler and key command is one action; the C functions they *)
(* call are operators that map a state record to a state record and are    *)
(* composed in the order of the calls in the source.                       *)
(*                                                                         *)
(* Representation.                                                         *)
(*  - a Monitor* is the 1-based position of the monitor in the monitor     *)
(*    list (monitors are only ever removed from the tail while running);   *)
(*  - a Client* is the X window id of the client, NULL is 0;               *)
(*  - the two intrusive linked lists of a monitor (next / stack_next) are  *)
(*    sequences of window ids, head first;                                 *)
(*  - an unsigned tag bit mask is the set of its bit positions (0..31);    *)
(*  - mfact (a float) is an integer number of hundredths.                  *)
(***************************************************************************)
EXTENDS Integers, Sequences, FiniteSets, TLC

VARIABLES
    monitors,           \* Monitor* monitors: the list of Monitor records
    clients,            \* the managed Client records, by window id
    selected_monitor,   \* Monitor* selected_monitor
    net_client_list,    \* root property _NET_CLIENT_LIST (sequence of windows)
    net_active,         \* root property _NET_ACTIVE_WINDOW (0: absent)
    sw, sh,             \* X display screen geometry
    motion_mon,         \* static Monitor* mon of motionnotify (0: NULL)
    running,            \* static int running
    server_grabbed,     \* the X server is grabbed (XGrabServer .. XUngrabServer)
    error_handler,      \* the handler last installed with XSetErrorHandler
    pc,                 \* where main is: "run", "movemouse", "cleanup", "exit"
    drag                \* the locals of movemouse during its loop (0: none)

vars == <<monitors, clients, selected_monitor, net_client_list, net_active,
          sw, sh, motion_mon, running, server_grabbed, error_handler, pc,
          drag>>

-----------------------------------------------------------------------------
(* Bounds of the model.                                                    *)

\* window ids the X server hands out are 1..MaxClients
MaxClients == 2
\* the tile layout is followed with window ids 1..MaxTiled
MaxTiled == 3
\* tag indices the key bindings pass are 0..MaxTagArg
MaxTagArg == 1
\* setgaps is applied at most this many times in the growing direction
MaxGapSteps == 2
\* change_masters_count raises masters_count at most to this value
MaxMasters == 2

(* Program constants.                                                      *)

\* LENGTH(tags), config.h
NumTags == 9
\* bar height: font height + 2
bh == 20
\* config.h
borderpx == 1
\* config.h: mfact, in hundredths
mfact == 55
\* config.h
DEFAULT_MASTERS_COUNT == 1
\* config.h
gappx == 0
\* width of unsigned int and int
WordBits == 32

NULL == 0
Windows == 1..MaxClients
TiledWindows == 1..MaxTiled

\* INT_MAX, written so that no intermediate value leaves the range of int
IntMax == (2^(WordBits - 2) - 1) + 2^(WordBits - 2)

\* An unsigned int is kept as the int of the same bit pattern, so a value
\* from 2^31 up appears as a negative number.  Conversions between int and
\* unsigned int are then the identity, and + and - agree with the
\* arithmetic modulo 2^32 as long as no result leaves the range of int.
\* Comparison and division of unsigned values:
ULess(a, b) == IF (a < 0) = (b < 0) THEN a < b ELSE b < 0
UMAX(a, b) == IF ULess(b, a) THEN a ELSE b
UMIN(a, b) == IF ULess(a, b) THEN a ELSE b
\* a / d for an unsigned a and 0 < d <= INT_MAX; a negative a stands for
\* 2^32 + a = 2 * INT_MAX + 2 + a
UDiv(a, d) ==
    IF a >= 0 THEN a \div d
    ELSE IF d = 1 THEN a
    ELSE 2 * (IntMax \div d) + ((2 * (IntMax % d) + 2 + a) \div d)

MAX(a, b) == IF a > b THEN a ELSE b
MIN(a, b) == IF a < b THEN a ELSE b

\* C integer division and remainder truncate toward zero
CDiv(a, b) ==
    IF a >= 0 /\ b > 0 THEN a \div b
    ELSE IF a >= 0 THEN -(a \div (-b))
    ELSE IF b > 0 THEN -((-a) \div b)
    ELSE (-a) \div (-b)
CMod(a, b) == a - b * CDiv(a, b)

\* TAGMASK: bits 0..LENGTH(tags)-1
TAGMASK == 0..(NumTags - 1)

\* The values 1 << index can take.  A shift count of the word width or more
\* is undefined: builds produce 0 or the shift by the count modulo the width.
Shl1(index) ==
    IF ULess(index, WordBits) THEN {{index}}
    ELSE {{}, {index % WordBits}}

\* sequence helpers for the linked lists
Remove(seq, x) == SelectSeq(seq, LAMBDA e : e # x)
SeqSet(seq) == {seq[i] : i \in 1..Len(seq)}

\* config.h: layouts[]; "float" has a NULL arrange function
LayoutIds == {"tile", "float", "monocle"}
Arranges(layout) == layout \in {"tile", "monocle"}


-----------------------------------------------------------------------------
(* The state record the operators below transform.  Its fields are the     *)
(* variables (mons, cl, selmon, ncl, active, sw, sh, mmon, running,        *)
(* grabbed, handler, pc, drag) and oob, the value an out-of-bounds read of *)
(* Monitor.layouts[] yields during the current handler.                    *)

State(oob) ==
    [mons |-> monitors, cl |-> clients, selmon |-> selected_monitor,
     ncl |-> net_client_list, active |-> net_active, sw |-> sw, sh |-> sh,
     mmon |-> motion_mon, running |-> running, grabbed |-> server_grabbed,
     handler |-> error_handler, pc |-> pc, drag |-> drag, oob |-> oob]

\* the handler ends in state s
Becomes(s) ==
    /\ monitors' = s.mons
    /\ clients' = s.cl
    /\ selected_monitor' = s.selmon
    /\ net_client_list' = s.ncl
    /\ net_active' = s.active
    /\ sw' = s.sw
    /\ sh' = s.sh
    /\ motion_mon' = s.mmon
    /\ running' = s.running
    /\ server_grabbed' = s.grabbed
    /\ error_handler' = s.handler
    /\ pc' = s.pc
    /\ drag' = s.drag

MonIdx(s) == 1..Len(s.mons)
Managed(s) == DOMAIN s.cl

(* tags *)
current_tags(m) == m.tagset[m.selected_tags_set + 1]
\* faulty variant of set_tags: the tags are added to the ones in the slot
set_tags_adding(m, tags) ==
    [m EXCEPT !.tagset[m.selected_tags_set + 1] = @ \cup tags]
set_tags(m, tag) == [m EXCEPT !.tagset[m.selected_tags_set + 1] = tag]
\* faulty variant of swap_selected_tags: the slot is not changed
swap_selected_tags_never(m) == m
swap_selected_tags(m) == [m EXCEPT !.selected_tags_set = 1 - @]

(* layouts *)
\* a monitor whose layout index addresses no slot of layouts[]
LayoutIndexOutOfRange(m) == ~ULess(m.current_layout_index, NumTags)
current_layout(s, i) ==
    LET m == s.mons[i]
    IN  IF LayoutIndexOutOfRange(m) THEN s.oob
        ELSE m.layouts[m.current_layout_index + 1]
set_layout_index(m, index) == [m EXCEPT !.current_layout_index = index]
\* an out-of-bounds store lands outside the Monitor record
set_layout(m, layout) ==
    IF LayoutIndexOutOfRange(m) THEN m
    ELSE [m EXCEPT !.layouts[m.current_layout_index + 1] = layout]

ISVISIBLE(s, c) == (s.cl[c].tags \cap current_tags(s.mons[s.cl[c].mon])) # {}
WIDTH(c) == c.w + 2 * c.border_width
HEIGHT(c) == c.h + 2 * c.border_width

\* the clients nexttiled() walks over, in list order
nexttiled(s, i) ==
    SelectSeq(s.mons[i].clients,
              LAMBDA c : ~s.cl[c].isfloating /\ ISVISIBLE(s, c))
count_tiled_clients(s, i) == Len(nexttiled(s, i))

find_first_visible_client_in_stack(s, stack) ==
    LET vis == SelectSeq(stack, LAMBDA c : ISVISIBLE(s, c))
    IN  IF vis = <<>> THEN NULL ELSE Head(vis)

(* Geometry & hints *)

\* config.h: resizehints
resizehints == TRUE

\* aspect limits are kept as the fractions of XSizeHints: mina = miny / minx,
\* maxa = maxx / maxy; a zero numerator or denominator means "no limit" here
HasAspect(c) == c.minax > 0 /\ c.minay > 0 /\ c.maxax > 0 /\ c.maxay > 0

\* applysizehints works on the rectangle g = [x, y, w, h] its pointer arguments
\* name; c is the client record, m the record of its monitor

\* set minimum possible
hints_positive(g) == [g EXCEPT !.w = MAX(1, @), !.h = MAX(1, @)]

\* a rectangle past the right or lower edge is pulled back by the client's size
hints_pull_back(s, c, m, g, interact) ==
    IF interact
    THEN [g EXCEPT !.x = IF g.x > s.sw THEN s.sw - WIDTH(c) ELSE g.x,
                   !.y = IF g.y > s.sh THEN s.sh - HEIGHT(c) ELSE g.y]
    ELSE [g EXCEPT !.x = IF g.x >= m.wx + m.ww THEN m.wx + m.ww - WIDTH(c) ELSE g.x,
                   !.y = IF g.y >= m.wy + m.wh THEN m.wy + m.wh - HEIGHT(c) ELSE g.y]

\* a rectangle before the left or upper edge is put on the edge
hints_push_in(c, m, g, interact) ==
    IF interact
    THEN [g EXCEPT !.x = IF g.x + g.w + 2 * c.border_width < 0 THEN 0 ELSE g.x,
                   !.y = IF g.y + g.h + 2 * c.border_width < 0 THEN 0 ELSE g.y]
    ELSE [g EXCEPT !.x = IF g.x + g.w + 2 * c.border_width <= m.wx THEN m.wx ELSE g.x,
                   !.y = IF g.y + g.h + 2 * c.border_width <= m.wy THEN m.wy ELSE g.y]

hints_bar_height(g) ==
    [g EXCEPT !.h = IF g.h < bh THEN bh ELSE g.h,
              !.w = IF g.w < bh THEN bh ELSE g.w]

\* see last two sentences in ICCCM 4.1.2.3
hints_baseismin(c) == c.basew = c.minw /\ c.baseh = c.minh

\* temporarily remove base dimensions
hints_remove_base(c, g) ==
    IF ~hints_baseismin(c)
    THEN [g EXCEPT !.w = g.w - c.basew, !.h = g.h - c.baseh] ELSE g

\* adjust for aspect limits:  maxa < (float)w / h,  mina < (float)h / w
hints_aspect(c, g) ==
    LET tooWide == g.h # 0 /\ (IF g.h > 0 THEN c.maxax * g.h < g.w * c.maxay
                                          ELSE c.maxax * g.h > g.w * c.maxay)
        tooTall == g.w # 0 /\ (IF g.w > 0 THEN c.minay * g.w < g.h * c.minax
                                          ELSE c.minay * g.w > g.h * c.minax)
    IN  IF HasAspect(c) /\ tooWide
        THEN [g EXCEPT !.w = CDiv(2 * g.h * c.maxax + c.maxay, 2 * c.maxay)]
        ELSE IF HasAspect(c) /\ tooTall
        THEN [g EXCEPT !.h = CDiv(2 * g.w * c.minay + c.minax, 2 * c.minax)]
        ELSE g

\* increment calculation requires this
hints_remove_base_min(c, g) ==
    IF hints_baseismin(c)
    THEN [g EXCEPT !.w = g.w - c.basew, !.h = g.h - c.baseh] ELSE g

\* adjust for increment value
hints_increments(c, g) ==
    [g EXCEPT !.w = IF c.incw # 0 THEN g.w - CMod(g.w, c.incw) ELSE g.w,
              !.h = IF c.inch # 0 THEN g.h - CMod(g.h, c.inch) ELSE g.h]

\* restore base dimensions
hints_restore_base(c, g) ==
    [g EXCEPT !.w = MAX(g.w + c.basew, c.minw),
              !.h = MAX(g.h + c.baseh, c.minh)]

hints_maximum(c, g) ==
    [g EXCEPT !.w = IF c.maxw # 0 THEN MIN(g.w, c.maxw) ELSE g.w,
              !.h = IF c.maxh # 0 THEN MIN(g.h, c.maxh) ELSE g.h]

\* the block the size hints are applied in
hints_size(s, c, g) ==
    IF resizehints \/ c.isfloating \/ ~Arranges(current_layout(s, c.mon))
    THEN hints_maximum(c,
           hints_restore_base(c,
             hints_increments(c,
               hints_remove_base_min(c,
                 hints_aspect(c, hints_remove_base(c, g))))))
    ELSE g

\* the return value of applysizehints, with the rectangle
hints_result(c, g) ==
    [x |-> g.x, y |-> g.y, w |-> g.w, h |-> g.h,
     changed |-> (g.x # c.x \/ g.y # c.y \/ g.w # c.w \/ g.h # c.h)]

applysizehints(s, cw, x, y, w, h, interact) ==
    LET c == s.cl[cw]
        m == s.mons[c.mon]
    IN  hints_result(c,
          hints_size(s, c,
            hints_bar_height(
              hints_push_in(c, m,
                hints_pull_back(s, c, m,
                  hints_positive([x |-> x, y |-> y, w |-> w, h |-> h]),
                  interact),
                interact))))

resizeclient(s, cw, x, y, w, h) ==
    LET c == s.cl[cw]
    IN  [s EXCEPT !.cl[cw] =
            [c EXCEPT !.oldx = c.x, !.x = x, !.oldy = c.y, !.y = y,
                      !.oldw = c.w, !.w = w, !.oldh = c.h, !.h = h]]

\* resize, given what applysizehints returned
resize_hinted(s, cw, r) ==
    IF r.changed THEN resizeclient(s, cw, r.x, r.y, r.w, r.h) ELSE s

resize(s, cw, x, y, w, h, interact) ==
    resize_hinted(s, cw, applysizehints(s, cw, x, y, w, h, interact))

(* Layout engine *)

\* the loop of tile(): k is client_index, my and ty are unsigned
RECURSIVE tile_loop(_, _, _, _, _, _, _, _)

\* my += HEIGHT(c) + m->gappx, and the next client
tile_master_next(s, i, tiled, k, n, mw, my, ty) ==
    tile_loop(s, i, tiled, k + 1, n, mw,
              my + (HEIGHT(s.cl[tiled[k + 1]]) + s.mons[i].gappx), ty)

\* ty += HEIGHT(c) + m->gappx, and the next client
tile_stack_next(s, i, tiled, k, n, mw, my, ty) ==
    tile_loop(s, i, tiled, k + 1, n, mw, my,
              ty + (HEIGHT(s.cl[tiled[k + 1]]) + s.mons[i].gappx))

tile_loop(s, i, tiled, k, n, mw, my, ty) ==
    IF k >= Len(tiled) THEN s
    ELSE
      LET m == s.mons[i]
          cw == tiled[k + 1]
          bw == s.cl[cw].border_width
      IN  IF ULess(k, m.masters_count)
          THEN tile_master_next(
                 resize(s, cw, m.wx + m.gappx, m.wy + my,
                        mw - (2 * bw) - m.gappx,
                        (UDiv(m.wh - my, UMIN(n, m.masters_count) - k) - m.gappx)
                            - (2 * bw),
                        FALSE),
                 i, tiled, k, n, mw, my, ty)
          ELSE tile_stack_next(
                 resize(s, cw, m.wx + mw + m.gappx, m.wy + ty,
                        m.ww - mw - (2 * bw) - 2 * m.gappx,
                        (UDiv(m.wh - ty, n - k) - m.gappx) - (2 * bw),
                        FALSE),
                 i, tiled, k, n, mw, my, ty)

\* tile(), n being the number of tiled clients
tile_clients(s, i, tiled, n) ==
    LET m == s.mons[i]
    IN  IF n = 0 THEN s
        ELSE tile_loop(s, i, tiled, 0, n,
                       IF ULess(m.masters_count, n)
                       THEN (IF m.masters_count # 0
                             THEN (m.ww * m.mfact) \div 100 ELSE 0)
                       ELSE m.ww - m.gappx,
                       m.gappx, m.gappx)

tile(s, i) == tile_clients(s, i, nexttiled(s, i), count_tiled_clients(s, i))

RECURSIVE monocle_loop(_, _, _, _)
monocle_loop(s, i, tiled, k) ==
    IF k > Len(tiled) THEN s
    ELSE LET m == s.mons[i]
             cw == tiled[k]
             bw == s.cl[cw].border_width
         IN  monocle_loop(resize(s, cw, m.wx, m.wy, m.ww - 2 * bw, m.wh - 2 * bw, FALSE),
                          i, tiled, k + 1)
monocle(s, i) == monocle_loop(s, i, nexttiled(s, i), 1)

\* showhide(c) over the focus stack: only the visible clients are resized
RECURSIVE showhide(_, _)
showhide(s, stack) ==
    IF stack = <<>> THEN s
    ELSE LET cw == Head(stack)
             c == s.cl[cw]
         IN  IF ISVISIBLE(s, cw)
                /\ (~Arranges(current_layout(s, c.mon)) \/ c.isfloating)
                /\ ~c.isfullscreen
             THEN showhide(resize(s, cw, c.x, c.y, c.w, c.h, FALSE), Tail(stack))
             ELSE showhide(s, Tail(stack))

arrangemon(s, i) ==
    LET layout == current_layout(s, i)
    IN  IF layout = "tile" THEN tile(s, i)
        ELSE IF layout = "monocle" THEN monocle(s, i)
        ELSE s

\* the body of arrange for the monitors from..to: showhide and arrangemon
RECURSIVE arrange_monitors(_, _, _)
arrange_monitors(s, from, to) ==
    IF from > to THEN s
    ELSE arrange_monitors(arrangemon(showhide(s, s.mons[from].stack), from),
                          from + 1, to)

\* arrange(m); m = NULL arranges every monitor
arrange(s, i) ==
    arrange_monitors(s, IF i # NULL THEN i ELSE 1,
                        IF i # NULL THEN i ELSE Len(s.mons))

\* arrange(selected_monitor)
arrange_selected(s) == arrange(s, s.selmon)

-----------------------------------------------------------------------------
(* Client registry *)

\* faulty variant of attach: the client is appended to the end of the list
attach_at_tail(s, cw) ==
    [s EXCEPT !.mons[s.cl[cw].mon].clients = @ \o <<cw>>]

attach(s, cw) ==
    [s EXCEPT !.mons[s.cl[cw].mon].clients = <<cw>> \o @]

attachstack(s, cw) ==
    [s EXCEPT !.mons[s.cl[cw].mon].stack = <<cw>> \o @]

detach_client(s, cw) ==
    [s EXCEPT !.mons[s.cl[cw].mon].clients = Remove(@, cw)]

\* faulty variant of detachstack: the selected client of the monitor is kept
detachstack_keeping_selection(s, cw) ==
    [s EXCEPT !.mons[s.cl[cw].mon].stack = Remove(@, cw)]

detachstack(s, cw) ==
    LET i == s.cl[cw].mon
        s1 == [s EXCEPT !.mons[i].stack = Remove(@, cw)]
    IN  IF cw = s1.mons[i].selected_client
        THEN [s1 EXCEPT !.mons[i].selected_client =
                  find_first_visible_client_in_stack(s1, s1.mons[i].stack)]
        ELSE s1

\* window_to_client walks the client list of every monitor
window_to_client(s, w) ==
    IF \E i \in MonIdx(s) : w \in SeqSet(s.mons[i].clients) THEN w ELSE NULL

(* Focus *)

\* only the root property is modelled of what unfocus does to the X server
unfocus(s, cw, setfocus) ==
    IF cw = NULL THEN s
    ELSE IF setfocus THEN [s EXCEPT !.active = NULL]
    ELSE s

setfocus(s, cw) ==
    IF ~s.cl[cw].neverfocus THEN [s EXCEPT !.active = cw] ELSE s

\* focus, from the point where c is the client that gets the focus (or NULL)
focus_unfocus(s, c) ==
    LET sel == s.mons[s.selmon].selected_client
    IN  IF sel # NULL /\ sel # c THEN unfocus(s, sel, FALSE) ELSE s

\* faulty variant of focus_take: the client keeps its place in the focus stack
focus_take_in_place(s, c) ==
    IF c # NULL
    THEN setfocus([s EXCEPT !.selmon = s.cl[c].mon, !.cl[c].isurgent = FALSE], c)
    ELSE [s EXCEPT !.active = NULL]

focus_take(s, c) ==
    IF c # NULL
    THEN setfocus(
           attachstack(
             detachstack([s EXCEPT !.selmon = s.cl[c].mon,
                                   !.cl[c].isurgent = FALSE], c),
             c),
           c)
    ELSE [s EXCEPT !.active = NULL]

focus_select(s, c) == [s EXCEPT !.mons[s.selmon].selected_client = c]

focus_client(s, c) == focus_select(focus_take(focus_unfocus(s, c), c), c)

focus(s, cw) ==
    focus_client(s, IF cw = NULL \/ ~ISVISIBLE(s, cw)
                    THEN find_first_visible_client_in_stack(s, s.mons[s.selmon].stack)
                    ELSE cw)

(* Monitors *)

\* INTERSECT(x,y,w,h,m): area of the rectangle inside the work area of m
INTERSECT(x, y, w, h, m) ==
    MAX(0, MIN(x + w, m.wx + m.ww) - MAX(x, m.wx))
    * MAX(0, MIN(y + h, m.wy + m.wh) - MAX(y, m.wy))

RECURSIVE recttomon_loop(_, _, _, _, _, _, _, _)
recttomon_loop(s, x, y, w, h, i, r, area) ==
    IF i > Len(s.mons) THEN r
    ELSE LET a == INTERSECT(x, y, w, h, s.mons[i])
         IN  IF a > area THEN recttomon_loop(s, x, y, w, h, i + 1, i, a)
             ELSE recttomon_loop(s, x, y, w, h, i + 1, r, area)
recttomon(s, x, y, w, h) == recttomon_loop(s, x, y, w, h, 1, s.selmon, 0)

\* window_to_monitor(root_window); ptr.ok is what getrootptr returns
root_to_monitor(s, ptr) ==
    IF ptr.ok THEN recttomon(s, ptr.x, ptr.y, 1, 1) ELSE s.selmon

\* window_to_monitor(w) for a window that is no bar window and not the root
window_to_monitor(s, w) ==
    IF window_to_client(s, w) # NULL THEN s.cl[w].mon ELSE s.selmon

\* config.h: showbar, topbar
showbar == TRUE
topbar == TRUE

createmon ==
    [num |-> 0, mx |-> 0, my |-> 0, mw |-> 0, mh |-> 0,
     wx |-> 0, wy |-> 0, ww |-> 0, wh |-> 0, by |-> 0,
     showbar |-> showbar, topbar |-> topbar, gappx |-> gappx,
     mfact |-> mfact, masters_count |-> DEFAULT_MASTERS_COUNT,
     selected_tags_set |-> 0, tagset |-> <<{0}, {0}>>,
     clients |-> <<>>, stack |-> <<>>, selected_client |-> NULL,
     current_layout_index |-> 0,
     layouts |-> [k \in 1..NumTags |-> "tile"]]

\* faulty variant of updatebarpos: the bar strip is not taken off the height
updatebarpos_full_height(m) ==
    IF m.showbar
    THEN [m EXCEPT !.wh = m.mh,
                   !.by = IF m.topbar THEN m.my ELSE m.my + (m.mh - bh),
                   !.wy = IF m.topbar THEN m.my + bh ELSE m.my]
    ELSE [m EXCEPT !.wy = m.my, !.wh = m.mh, !.by = -bh]

\* faulty variant of updatebarpos: the bar is put at the bottom of the monitor
updatebarpos_bottom(m) ==
    IF m.showbar
    THEN [m EXCEPT !.wh = m.mh - bh, !.by = m.my + (m.mh - bh), !.wy = m.my]
    ELSE [m EXCEPT !.wy = m.my, !.wh = m.mh, !.by = -bh]

updatebarpos(m) ==
    IF m.showbar
    THEN [m EXCEPT !.wh = m.mh - bh,
                   !.by = IF m.topbar THEN m.my ELSE m.my + (m.mh - bh),
                   !.wy = IF m.topbar THEN m.my + bh ELSE m.my]
    ELSE [m EXCEPT !.wy = m.my, !.wh = m.mh, !.by = -bh]

\* isuniquegeom and the loop that keeps the first screen of every geometry
RECURSIVE unique_screens(_, _)
unique_screens(info, unique) ==
    IF info = <<>> THEN unique
    ELSE IF \E k \in 1..Len(unique) : unique[k] = Head(info)
         THEN unique_screens(Tail(info), unique)
         ELSE unique_screens(Tail(info), Append(unique, Head(info)))

\* updategeom, "new monitors available": the loop over the screens
RECURSIVE updategeom_grow(_, _, _, _, _)
updategeom_grow(mons, unique, old_count, i, dirty) ==
    IF i > Len(unique) \/ i > Len(mons) THEN [mons |-> mons, dirty |-> dirty]
    ELSE LET m == mons[i]
             u == unique[i]
         IN  IF i > old_count \/ u.x # m.mx \/ u.y # m.my \/ u.w # m.mw \/ u.h # m.mh
             THEN updategeom_grow(
                    [mons EXCEPT ![i] = updatebarpos(
                        [m EXCEPT !.num = i - 1,
                                  !.mx = u.x, !.wx = u.x, !.my = u.y, !.wy = u.y,
                                  !.mw = u.w, !.ww = u.w, !.mh = u.h, !.wh = u.h])],
                    unique, old_count, i + 1, TRUE)
             ELSE updategeom_grow(mons, unique, old_count, i + 1, dirty)

\* updategeom, "less monitors available": the clients of the last monitor
\* move to the first one, head of the list first
RECURSIVE updategeom_migrate(_)
updategeom_migrate(s) ==
    LET last == Len(s.mons)
    IN  IF s.mons[last].clients = <<>> THEN s
        ELSE LET cw == Head(s.mons[last].clients)
                 s1 == [s EXCEPT !.mons[last].clients = Tail(@)]
                 s2 == detachstack(s1, cw)
                 s3 == [s2 EXCEPT !.cl[cw].mon = 1]
             IN  updategeom_migrate(attachstack(attach(s3, cw), cw))

\* the selected monitor leaves the last one, and cleanupmon(last_monitor)
updategeom_cleanup(s) ==
    LET last == Len(s.mons)
    IN  [s EXCEPT !.selmon = IF last = s.selmon THEN 1 ELSE @,
                  !.mons = SubSeq(@, 1, last - 1)]

RECURSIVE updategeom_shrink(_, _, _)
updategeom_shrink(s, count, dirty) ==
    IF Len(s.mons) <= count THEN [s |-> s, dirty |-> dirty]
    ELSE updategeom_shrink(updategeom_cleanup(updategeom_migrate(s)), count,
                           dirty \/ s.mons[Len(s.mons)].clients # <<>>)

\* the monitor list after the loop of updategeom_grow
updategeom_grown(s, g) == [s |-> [s EXCEPT !.mons = g.mons], dirty |-> g.dirty]

\* unique is the list of the screens with a geometry of their own
updategeom_screens(s, unique) ==
    IF Len(s.mons) <= Len(unique)
    THEN updategeom_grown(s,
           updategeom_grow(
             s.mons \o [k \in 1..(Len(unique) - Len(s.mons)) |-> createmon],
             unique, Len(s.mons), 1, FALSE))
    ELSE updategeom_shrink(s, Len(unique), FALSE)

\* if (dirty) { selected_monitor = monitors; ... = window_to_monitor(root) }
updategeom_select(r, ptr) ==
    IF r.dirty
    THEN [s |-> [r.s EXCEPT !.selmon =
                    root_to_monitor([r.s EXCEPT !.selmon = 1], ptr)],
          dirty |-> TRUE]
    ELSE r

\* updategeom with Xinerama active; info is what XineramaQueryScreens reports
updategeom(s, info, ptr) ==
    updategeom_select(updategeom_screens(s, unique_screens(info, <<>>)), ptr)

updateclientlist(s) ==
    LET RECURSIVE all(_)
        all(i) == IF i > Len(s.mons) THEN <<>> ELSE s.mons[i].clients \o all(i + 1)
    IN  [s EXCEPT !.ncl = all(1)]

-----------------------------------------------------------------------------
(* Clients *)

\* faulty variant of setfullscreen: leaving fullscreen does not restore the
\* floating flag
setfullscreen_staying_floating(s, cw, fullscreen) ==
    LET c == s.cl[cw]
        m == s.mons[c.mon]
    IN  IF fullscreen /\ ~c.isfullscreen
        THEN resizeclient(
               [s EXCEPT !.cl[cw] =
                   [@ EXCEPT !.isfullscreen = TRUE,
                             !.oldstate = c.isfloating,
                             !.old_border_width = c.border_width,
                             !.border_width = 0,
                             !.isfloating = TRUE]],
               cw, m.mx, m.my, m.mw, m.mh)
        ELSE IF ~fullscreen /\ c.isfullscreen
        THEN arrange(
               resizeclient(
                 [s EXCEPT !.cl[cw] =
                     [@ EXCEPT !.isfullscreen = FALSE,
                               !.border_width = c.old_border_width,
                               !.x = c.oldx, !.y = c.oldy,
                               !.w = c.oldw, !.h = c.oldh]],
                 cw, c.oldx, c.oldy, c.oldw, c.oldh),
               c.mon)
        ELSE s

setfullscreen(s, cw, fullscreen) ==
    LET c == s.cl[cw]
        m == s.mons[c.mon]
    IN  IF fullscreen /\ ~c.isfullscreen
        THEN resizeclient(
               [s EXCEPT !.cl[cw] =
                   [@ EXCEPT !.isfullscreen = TRUE,
                             !.oldstate = c.isfloating,
                             !.old_border_width = c.border_width,
                             !.border_width = 0,
                             !.isfloating = TRUE]],
               cw, m.mx, m.my, m.mw, m.mh)
        ELSE IF ~fullscreen /\ c.isfullscreen
        THEN arrange(
               resizeclient(
                 [s EXCEPT !.cl[cw] =
                     [@ EXCEPT !.isfullscreen = FALSE,
                               !.isfloating = c.oldstate,
                               !.border_width = c.old_border_width,
                               !.x = c.oldx, !.y = c.oldy,
                               !.w = c.oldw, !.h = c.oldh]],
                 cw, c.oldx, c.oldy, c.oldw, c.oldh),
               c.mon)
        ELSE s

\* class names of WM_CLASS as sequences of characters
XTerm == <<"X", "T", "e", "r", "m">>
Gimp == <<"G", "i", "m", "p">>
GimpVersioned == <<"G", "i", "m", "p", "-", "2", ".", "1", "0">>

\* strstr(haystack, needle) as a truth value
strstr(haystack, needle) ==
    \E k \in 0..(Len(haystack) - Len(needle)) :
        SubSeq(haystack, k + 1, k + Len(needle)) = needle

\* config.h: rules[]; class is the substring a window class must hold
rules ==
    << [class |-> Gimp, tags |-> {3}, isfloating |-> TRUE, monitor |-> -1] >>

\* applyrules: the rules are applied in order to the client record c
RECURSIVE applyrules_loop(_, _, _, _)
applyrules_loop(s, c, class, k) ==
    IF k > Len(rules) THEN c
    ELSE LET rule == rules[k]
             hit == {i \in MonIdx(s) : s.mons[i].num = rule.monitor}
             \* the first monitor of the list with that number
             m == IF hit = {} THEN c.mon
                  ELSE CHOOSE i \in hit : \A j \in hit : i <= j
         IN  IF strstr(class, rule.class)
             THEN applyrules_loop(s,
                    [c EXCEPT !.isfloating = rule.isfloating,
                              !.tags = @ \cup rule.tags,
                              !.mon = m],
                    class, k + 1)
             ELSE applyrules_loop(s, c, class, k + 1)

\* faulty variant of applyrules_tags: the tags of the rules are dropped
applyrules_tags_current(s, c) ==
    [c EXCEPT !.tags = current_tags(s.mons[c.mon])]

\* c->tags = c->tags & TAGMASK ? c->tags & TAGMASK : current_tags(c->monitor)
applyrules_tags(s, c) ==
    [c EXCEPT !.tags = IF (c.tags \cap TAGMASK) # {}
                       THEN c.tags \cap TAGMASK
                       ELSE current_tags(s.mons[c.mon])]

applyrules(s, c, class) ==
    applyrules_tags(s, applyrules_loop(s, [c EXCEPT !.isfloating = FALSE,
                                                    !.tags = {}], class, 1))

\* updatesizehints: size is the XSizeHints record, size.flags the set of the
\* flags it carries
updatesizehints(c, size) ==
    LET f == size.flags
        base == IF "PBaseSize" \in f THEN <<size.base_width, size.base_height>>
                ELSE IF "PMinSize" \in f THEN <<size.min_width, size.min_height>>
                ELSE <<0, 0>>
        inc == IF "PResizeInc" \in f THEN <<size.width_inc, size.height_inc>>
               ELSE <<0, 0>>
        max == IF "PMaxSize" \in f THEN <<size.max_width, size.max_height>>
               ELSE <<0, 0>>
        min == IF "PMinSize" \in f THEN <<size.min_width, size.min_height>>
               ELSE IF "PBaseSize" \in f THEN <<size.base_width, size.base_height>>
               ELSE <<0, 0>>
        asp == IF "PAspect" \in f
               THEN <<size.min_aspect_x, size.min_aspect_y,
                      size.max_aspect_x, size.max_aspect_y>>
               ELSE <<0, 0, 0, 0>>
    IN  [c EXCEPT !.basew = base[1], !.baseh = base[2],
                  !.incw = inc[1], !.inch = inc[2],
                  !.maxw = max[1], !.maxh = max[2],
                  !.minw = min[1], !.minh = min[2],
                  !.minax = asp[1], !.minay = asp[2],
                  !.maxax = asp[3], !.maxay = asp[4],
                  !.isfixed = (max[1] # 0 /\ max[2] # 0
                               /\ max[1] = min[1] /\ max[2] = min[2])]

\* the record ecalloc returns, with the geometry manage copies into it
new_client(wa) ==
    [x |-> wa.x, y |-> wa.y, w |-> wa.w, h |-> wa.h,
     oldx |-> wa.x, oldy |-> wa.y, oldw |-> wa.w, oldh |-> wa.h,
     basew |-> 0, baseh |-> 0, incw |-> 0, inch |-> 0,
     maxw |-> 0, maxh |-> 0, minw |-> 0, minh |-> 0,
     minax |-> 0, minay |-> 0, maxax |-> 0, maxay |-> 0,
     border_width |-> 0, old_border_width |-> wa.border_width,
     tags |-> {}, isfixed |-> FALSE, isfloating |-> FALSE, isurgent |-> FALSE,
     neverfocus |-> FALSE, oldstate |-> FALSE, isfullscreen |-> FALSE,
     mon |-> NULL]

\* updatewindowtype, the properties read being fullscreen and dialog
updatewindowtype(s, w, fullscreen, dialog) ==
    IF dialog
    THEN [(IF fullscreen THEN setfullscreen(s, w, TRUE) ELSE s)
             EXCEPT !.cl[w].isfloating = TRUE]
    ELSE IF fullscreen THEN setfullscreen(s, w, TRUE)
    ELSE s

\* manage(w, wa).  win is what the X server answers about the window:
\*   trans       WM_TRANSIENT_FOR (NULL: no hint)
\*   class       the class of XGetClassHint
\*   fullscreen  _NET_WM_STATE is _NET_WM_STATE_FULLSCREEN
\*   dialog      _NET_WM_WINDOW_TYPE is _NET_WM_WINDOW_TYPE_DIALOG
\*   size        WM_NORMAL_HINTS
\*   neverfocus  WM_HINTS has InputHint and input is False
\* The steps of manage, in the order of the source:

\* monitor and tags come from the client the window is transient for, or
\* from the selected monitor and the rules
manage_client(s, c, win) ==
    LET t == IF win.trans # NULL THEN window_to_client(s, win.trans) ELSE NULL
    IN  IF t # NULL
        THEN [c EXCEPT !.mon = s.cl[t].mon, !.tags = s.cl[t].tags]
        ELSE applyrules(s, [c EXCEPT !.mon = s.selmon], win.class)

\* the window is pulled back onto the screen of its monitor m
manage_fit(m, c) ==
    [c EXCEPT !.x = IF c.x + WIDTH(c) > m.mx + m.mw
                    THEN m.mx + m.mw - WIDTH(c) ELSE c.x,
              !.y = IF c.y + HEIGHT(c) > m.my + m.mh
                    THEN m.my + m.mh - HEIGHT(c) ELSE c.y]

manage_fit_x(m, c) == [c EXCEPT !.x = MAX(c.x, m.mx)]

\* only fix client y-offset, if the client center might cover the bar
manage_fit_y(m, c) ==
    [c EXCEPT !.y = MAX(c.y, IF m.by = m.my
                                /\ c.x + CDiv(c.w, 2) >= m.wx
                                /\ c.x + CDiv(c.w, 2) < m.wx + m.ww
                             THEN bh ELSE m.my),
              !.border_width = borderpx]

manage_place(s, c) ==
    LET m == s.mons[c.mon]
    IN  manage_fit_y(m, manage_fit_x(m, manage_fit(m, c)))

\* the record becomes the client of window w
manage_insert(s, w, c) ==
    [s EXCEPT !.cl = [x \in DOMAIN s.cl \cup {w} |->
                        IF x = w THEN c ELSE s.cl[x]]]

manage_center(m, c) ==
    [c EXCEPT !.x = m.mx + CDiv(m.mw - WIDTH(c), 2),
              !.y = m.my + CDiv(m.mh - HEIGHT(c), 2)]

\* c->isfloating = c->oldstate = trans != None || c->isfixed
manage_floating(c, trans) ==
    IF ~c.isfloating
    THEN [c EXCEPT !.isfloating = (trans # NULL \/ c.isfixed),
                   !.oldstate = (trans # NULL \/ c.isfixed)]
    ELSE c

\* updatesizehints, updatewmhints, the centring and the floating state
manage_hints(s, w, win) ==
    [s EXCEPT !.cl[w] =
        manage_floating(
          manage_center(s.mons[s.cl[w].mon],
                        [updatesizehints(s.cl[w], win.size)
                            EXCEPT !.neverfocus = win.neverfocus]),
          win.trans)]

\* attach, attachstack, and the window joins _NET_CLIENT_LIST
manage_attach(s, w) ==
    [attachstack(attach(s, w), w) EXCEPT !.ncl = Append(@, w)]

\* the client is selected on its monitor, which is arranged; focus(NULL)
manage_select(s, w) ==
    LET i == s.cl[w].mon
    IN  focus(arrange([(IF i = s.selmon
                        THEN unfocus(s, s.mons[s.selmon].selected_client, FALSE)
                        ELSE s)
                          EXCEPT !.mons[i].selected_client = w], i),
              NULL)

manage(s, w, wa, win) ==
    manage_select(
      manage_attach(
        manage_hints(
          updatewindowtype(
            manage_insert(s, w,
              manage_place(s, manage_client(s, new_client(wa), win))),
            w, win.fullscreen, win.dialog),
          w, win),
        w),
      w)

\* free(c)
free_client(s, cw) ==
    [s EXCEPT !.cl = [x \in DOMAIN s.cl \ {cw} |-> s.cl[x]]]

\* faulty variant of unmanage: _NET_CLIENT_LIST is not rebuilt
unmanage_keeping_list(s, cw, destroyed) ==
    arrange(focus(free_client(detachstack(detach_client(s, cw), cw), cw), NULL),
            s.cl[cw].mon)

\* faulty variant of unmanage: the server grab is not released
unmanage_leaving_grab(s, cw, destroyed) ==
    LET s1 == detachstack(detach_client(s, cw), cw)
        s2 == IF ~destroyed
              THEN [s1 EXCEPT !.grabbed = TRUE, !.handler = "xerror"]
              ELSE s1
    IN  arrange(updateclientlist(focus(free_client(s2, cw), NULL)), s.cl[cw].mon)

\* XGrabServer, XSetErrorHandler(xerrordummy), the requests on the window,
\* XSetErrorHandler(xerror), XUngrabServer run one after the other
unmanage(s, cw, destroyed) ==
    LET s1 == detachstack(detach_client(s, cw), cw)
        s2 == IF ~destroyed
              THEN LET grabbed == [s1 EXCEPT !.grabbed = TRUE,
                                             !.handler = "xerrordummy"]
                   IN  [grabbed EXCEPT !.handler = "xerror", !.grabbed = FALSE]
              ELSE s1
    IN  arrange(updateclientlist(focus(free_client(s2, cw), NULL)), s.cl[cw].mon)

\* c->monitor = m; c->tags = current_tags(m)
sendmon_assign(s, cw, i) ==
    [s EXCEPT !.cl[cw].mon = i, !.cl[cw].tags = current_tags(s.mons[i])]

\* faulty variant of sendmon: the client is not taken off the lists of the
\* monitor it leaves
sendmon_without_detach(s, cw, i) ==
    IF s.cl[cw].mon = i THEN s
    ELSE arrange(
           focus(
             attachstack(attach(sendmon_assign(unfocus(s, cw, TRUE), cw, i), cw),
                         cw),
             NULL),
           NULL)

\* faulty variant of sendmon: the client goes to the end of the client list
\* of the monitor it is sent to
sendmon_to_tail(s, cw, i) ==
    IF s.cl[cw].mon = i THEN s
    ELSE arrange(
           focus(
             attachstack(
               attach_at_tail(
                 sendmon_assign(
                   detachstack(detach_client(unfocus(s, cw, TRUE), cw), cw),
                   cw, i),
                 cw),
               cw),
             NULL),
           NULL)

sendmon(s, cw, i) ==
    IF s.cl[cw].mon = i THEN s
    ELSE arrange(
           focus(
             attachstack(
               attach(
                 sendmon_assign(
                   detachstack(detach_client(unfocus(s, cw, TRUE), cw), cw),
                   cw, i),
                 cw),
               cw),
             NULL),
           NULL)

\* faulty variant of pop: the client is focused but stays where it is in
\* the client list
pop_without_attach(s, cw) ==
    arrange(focus(s, cw), s.cl[cw].mon)

pop(s, cw) ==
    arrange(focus(attach(detach_client(s, cw), cw), cw), s.cl[cw].mon)

\* find_previous_monitor(current); current = NULL yields the last monitor
find_previous_monitor(s, current) ==
    IF current = NULL THEN Len(s.mons)
    ELSE IF current = 1 THEN NULL
    ELSE current - 1

dirtomon(s, dir) ==
    IF dir > 0
    THEN (IF s.selmon < Len(s.mons) THEN s.selmon + 1 ELSE 1)
    ELSE IF s.selmon = 1 THEN find_previous_monitor(s, NULL)
    ELSE find_previous_monitor(s, s.selmon)

-----------------------------------------------------------------------------
(* Command layer: the functions the key and button tables bind.  shl is    *)
(* the value of 1 << index (see Shl1).                                     *)

\* faulty variant of view: focus(NULL) is left out
view_without_focus(s, index, shl) ==
    LET requested_tag == shl \cap TAGMASK
        i == s.selmon
    IN  IF requested_tag = current_tags(s.mons[i]) THEN s
        ELSE LET m1 == swap_selected_tags(s.mons[i])
                 m2 == IF requested_tag # {} THEN set_tags(m1, requested_tag) ELSE m1
                 m3 == set_layout_index(m2, index)
             IN  arrange_selected([s EXCEPT !.mons[i] = m3])

view(s, index, shl) ==
    LET requested_tag == shl \cap TAGMASK
        i == s.selmon
    IN  IF requested_tag = current_tags(s.mons[i]) THEN s
        ELSE LET m1 == swap_selected_tags(s.mons[i])
                 m2 == IF requested_tag # {} THEN set_tags(m1, requested_tag) ELSE m1
                 m3 == set_layout_index(m2, index)
             IN  arrange_selected(focus([s EXCEPT !.mons[i] = m3], NULL))

\* faulty variant of TagXor: a | b
TagOr(a, b) == a \cup b
\* a ^ b on tag masks
TagXor(a, b) == (a \ b) \cup (b \ a)

\* faulty variant of toggleview: the last tag in view can be toggled off
toggleview_unchecked(s, index, shl) ==
    arrange_selected(
      focus([s EXCEPT !.mons[s.selmon] =
                set_tags(@, TagXor(current_tags(@), shl \cap TAGMASK))], NULL))

toggleview(s, index, shl) ==
    LET tag_to_toggle == shl \cap TAGMASK
        i == s.selmon
        updated_tags == TagXor(current_tags(s.mons[i]), tag_to_toggle)
    IN  IF updated_tags # {}
        THEN arrange_selected(
               focus([s EXCEPT !.mons[i] = set_tags(@, updated_tags)], NULL))
        ELSE s

tag(s, index, shl) ==
    LET tags_to_move_to == shl \cap TAGMASK
        selected_client == s.mons[s.selmon].selected_client
    IN  IF selected_client # NULL /\ tags_to_move_to # {}
        THEN arrange_selected(
               focus([s EXCEPT !.cl[selected_client].tags = tags_to_move_to], NULL))
        ELSE s

\* faulty variant of toggletag: the last tag of the client can be toggled off
toggletag_unchecked(s, index, shl) ==
    LET selected_client == s.mons[s.selmon].selected_client
    IN  IF selected_client = NULL THEN s
        ELSE arrange_selected(
               focus([s EXCEPT !.cl[selected_client].tags =
                         TagXor(@, shl \cap TAGMASK)], NULL))

toggletag(s, index, shl) ==
    LET selected_client == s.mons[s.selmon].selected_client
        tag_to_toggle == shl \cap TAGMASK
    IN  IF selected_client = NULL THEN s
        ELSE LET updated_tags == TagXor(s.cl[selected_client].tags, tag_to_toggle)
             IN  IF updated_tags # {}
                 THEN arrange_selected(
                        focus([s EXCEPT !.cl[selected_client].tags = updated_tags],
                              NULL))
                 ELSE s

tagmon(s, dir) ==
    IF s.mons[s.selmon].selected_client = NULL \/ Len(s.mons) < 2 THEN s
    ELSE sendmon(s, s.mons[s.selmon].selected_client, dirtomon(s, dir))

focusmon(s, dir) ==
    IF Len(s.mons) < 2 THEN s
    ELSE LET m == dirtomon(s, dir)
         IN  IF m = s.selmon THEN s
             ELSE focus([unfocus(s, s.mons[s.selmon].selected_client, FALSE)
                            EXCEPT !.selmon = m], NULL)

\* config.h: lockfullscreen
lockfullscreen == TRUE

\* config.h: snap
snap == 32

\* find_first_visible_client(start, end) and find_last_visible_client(start,
\* end) over the part list[from..to] of a client list; the first one returns
\* end itself when it finds nothing
find_first_visible_client(s, list, from, to, end) ==
    LET vis == {k \in from..to : ISVISIBLE(s, list[k])}
    IN  IF vis = {} THEN end ELSE list[CHOOSE k \in vis : \A j \in vis : k <= j]
find_last_visible_client(s, list, from, to) ==
    LET vis == {k \in from..to : ISVISIBLE(s, list[k])}
    IN  IF vis = {} THEN NULL ELSE list[CHOOSE k \in vis : \A j \in vis : k >= j]

\* faulty variant of focusstack: the search does not wrap around
focusstack_without_wrap(s, dir) ==
    LET selected_client == s.mons[s.selmon].selected_client
        list == s.mons[s.selmon].clients
    IN  IF selected_client = NULL
           \/ (s.cl[selected_client].isfullscreen /\ lockfullscreen)
        THEN s
        ELSE LET at == CHOOSE k \in 1..Len(list) : list[k] = selected_client
                 c == IF dir > 0
                      THEN find_first_visible_client(s, list, at + 1, Len(list), NULL)
                      ELSE find_last_visible_client(s, list, 1, at - 1)
             IN  IF c # NULL THEN focus(s, c) ELSE s

focusstack(s, dir) ==
    LET selected_client == s.mons[s.selmon].selected_client
        list == s.mons[s.selmon].clients
    IN  IF selected_client = NULL
           \/ (s.cl[selected_client].isfullscreen /\ lockfullscreen)
        THEN s
        ELSE LET at == CHOOSE k \in 1..Len(list) : list[k] = selected_client
                 c1 == IF dir > 0
                       THEN find_first_visible_client(s, list, at + 1, Len(list), NULL)
                       ELSE find_last_visible_client(s, list, 1, at - 1)
                 c == IF c1 # NULL THEN c1
                      ELSE IF dir > 0
                      THEN find_first_visible_client(s, list, 1, at - 1,
                                                     selected_client)
                      ELSE find_last_visible_client(s, list, at + 1, Len(list))
             IN  IF c # NULL THEN focus(s, c) ELSE s

\* faulty variant of restack: wc.sibling stays the bar window
restack_below_bar(s, i, order, bar_window) ==
    LET m == s.mons[i]
        sel == m.selected_client
        layout == current_layout(s, i)
        Below(o, w, sibling) ==
            LET rest == Remove(o, w)
                p == CHOOSE k \in 1..Len(rest) : rest[k] = sibling
            IN  SubSeq(rest, 1, p) \o <<w>> \o SubSeq(rest, p + 1, Len(rest))
        RECURSIVE loop(_, _)
        loop(o, k) ==
            IF k > Len(m.stack) THEN o
            ELSE LET c == m.stack[k]
                 IN  IF ~s.cl[c].isfloating /\ ISVISIBLE(s, c)
                     THEN loop(Below(o, c, bar_window), k + 1)
                     ELSE loop(o, k + 1)
    IN  IF sel = NULL THEN order
        ELSE LET raised == IF s.cl[sel].isfloating \/ ~Arranges(layout)
                           THEN <<sel>> \o Remove(order, sel)
                           ELSE order
             IN  IF Arranges(layout) THEN loop(raised, 1) ELSE raised

\* restack(m) on the stacking order of the children of the root window,
\* topmost first: XRaiseWindow puts a window on top, XConfigureWindow with
\* CWSibling|CWStackMode and Below puts it directly below wc.sibling
restack(s, i, order, bar_window) ==
    LET m == s.mons[i]
        sel == m.selected_client
        layout == current_layout(s, i)
        Below(o, w, sibling) ==
            LET rest == Remove(o, w)
                p == CHOOSE k \in 1..Len(rest) : rest[k] = sibling
            IN  SubSeq(rest, 1, p) \o <<w>> \o SubSeq(rest, p + 1, Len(rest))
        RECURSIVE loop(_, _, _)
        loop(o, k, sibling) ==
            IF k > Len(m.stack) THEN o
            ELSE LET c == m.stack[k]
                 IN  IF ~s.cl[c].isfloating /\ ISVISIBLE(s, c)
                     THEN loop(Below(o, c, sibling), k + 1, c)
                     ELSE loop(o, k + 1, sibling)
    IN  IF sel = NULL THEN order
        ELSE LET raised == IF s.cl[sel].isfloating \/ ~Arranges(layout)
                           THEN <<sel>> \o Remove(order, sel)
                           ELSE order
             IN  IF Arranges(layout) THEN loop(raised, 1, bar_window) ELSE raised

\* faulty variant of zoom: a floating selected client is promoted as well
zoom_floating_too(s) ==
    LET i == s.selmon
        selected_client == s.mons[i].selected_client
        tiled == nexttiled(s, i)
        first == IF tiled = <<>> THEN NULL ELSE Head(tiled)
    IN  IF ~Arranges(current_layout(s, i)) THEN s
        ELSE IF selected_client = first
        THEN (IF selected_client = NULL \/ Len(tiled) < 2 THEN s
              ELSE pop(s, tiled[2]))
        ELSE IF selected_client = NULL THEN s
        ELSE pop(s, selected_client)

zoom(s) ==
    LET i == s.selmon
        selected_client == s.mons[i].selected_client
        tiled == nexttiled(s, i)
        first == IF tiled = <<>> THEN NULL ELSE Head(tiled)
    IN  IF ~Arranges(current_layout(s, i))
           \/ (selected_client # NULL /\ s.cl[selected_client].isfloating)
        THEN s
        ELSE IF selected_client = first
        THEN (IF selected_client = NULL \/ Len(tiled) < 2 THEN s
              ELSE pop(s, tiled[2]))
        \* pop(NULL) would dereference a null pointer: the process ends there
        ELSE IF selected_client = NULL THEN s
        ELSE pop(s, selected_client)

\* faulty variant of togglefloating: fullscreen clients are toggled too
togglefloating_any(s) ==
    LET selected_client == s.mons[s.selmon].selected_client
    IN  IF selected_client = NULL THEN s
        ELSE LET c == s.cl[selected_client]
                 fl == ~c.isfloating \/ c.isfixed
                 s1 == [s EXCEPT !.cl[selected_client].isfloating = fl]
             IN  arrange_selected(
                   IF fl THEN resize(s1, selected_client, c.x, c.y, c.w, c.h, FALSE)
                   ELSE s1)

togglefloating(s) ==
    LET selected_client == s.mons[s.selmon].selected_client
    IN  IF selected_client = NULL THEN s
        ELSE IF s.cl[selected_client].isfullscreen THEN s
        ELSE LET c == s.cl[selected_client]
                 fl == ~c.isfloating \/ c.isfixed
                 s1 == [s EXCEPT !.cl[selected_client].isfloating = fl]
             IN  arrange_selected(
                   IF fl THEN resize(s1, selected_client, c.x, c.y, c.w, c.h, FALSE)
                   ELSE s1)

setlayout(s, layout) ==
    IF layout = current_layout(s, s.selmon) THEN s
    ELSE LET s1 == [s EXCEPT !.mons[s.selmon] = set_layout(@, layout)]
         IN  IF s1.mons[s1.selmon].selected_client # NULL
             THEN arrange(s1, s1.selmon) ELSE s1

\* faulty variant of setmfact: the range of the result is not checked
setmfact_unchecked(s, f) ==
    IF ~Arranges(current_layout(s, s.selmon)) THEN s
    ELSE arrange_selected(
           [s EXCEPT !.mons[s.selmon].mfact = IF f < 100 THEN f + @ ELSE f - 100])

\* faulty variant of setmfact: every argument is taken as a difference
setmfact_relative(s, f) ==
    LET target == f + s.mons[s.selmon].mfact
    IN  IF ~Arranges(current_layout(s, s.selmon)) THEN s
        ELSE IF target < 5 \/ target > 95 THEN s
        ELSE arrange_selected([s EXCEPT !.mons[s.selmon].mfact = target])

\* setmfact: f is arg->f in hundredths; arg is never NULL for a key binding
setmfact(s, f) ==
    LET target == IF f < 100 THEN f + s.mons[s.selmon].mfact ELSE f - 100
    IN  IF ~Arranges(current_layout(s, s.selmon)) THEN s
        ELSE IF target < 5 \/ target > 95 THEN s
        ELSE arrange_selected([s EXCEPT !.mons[s.selmon].mfact = target])

togglebar(s) ==
    arrange([s EXCEPT !.mons[s.selmon] =
                updatebarpos([@ EXCEPT !.showbar = ~@])], s.selmon)

setgaps(s, i) ==
    arrange([s EXCEPT !.mons[s.selmon].gappx =
                IF i = 0 \/ @ + i < 0 THEN 0 ELSE @ + i], s.selmon)

\* faulty variant of change_masters_count: the count is not kept above 0
change_masters_count_unclamped(s, i) ==
    arrange([s EXCEPT !.mons[s.selmon].masters_count = @ + i], s.selmon)

change_masters_count(s, i) ==
    arrange([s EXCEPT !.mons[s.selmon].masters_count = UMAX(@ + i, 1)],
            s.selmon)

-----------------------------------------------------------------------------
(* Event handlers *)

maprequest(s, w, wa, win) ==
    IF wa.override_redirect THEN s
    ELSE IF window_to_client(s, w) = NULL THEN manage(s, w, wa, win)
    ELSE s

destroynotify(s, w) ==
    IF window_to_client(s, w) # NULL THEN unmanage(s, w, TRUE) ELSE s

\* faulty variant of unmapnotify: send_event is not looked at
unmapnotify_unmanaging(s, w, send_event) ==
    IF window_to_client(s, w) # NULL THEN unmanage(s, w, FALSE) ELSE s

\* a synthetic UnmapNotify only sets WM_STATE of the window
unmapnotify(s, w, send_event) ==
    IF window_to_client(s, w) # NULL /\ ~send_event THEN unmanage(s, w, FALSE)
    ELSE s

\* the loop of configurenotify over the clients of every monitor
RECURSIVE refullscreen(_, _, _)
refullscreen(s, i, k) ==
    IF i > Len(s.mons) THEN s
    ELSE IF k > Len(s.mons[i].clients) THEN refullscreen(s, i + 1, 1)
    ELSE LET cw == s.mons[i].clients[k]
             m == s.mons[i]
         IN  IF s.cl[cw].isfullscreen
             THEN refullscreen(resizeclient(s, cw, m.mx, m.my, m.mw, m.mh), i, k + 1)
             ELSE refullscreen(s, i, k + 1)

\* ConfigureNotify on the root window; ev.info is what Xinerama reports then
\* g is what updategeom returned, dirty the flag of the handler
configurenotify_dirty(g, dirty) ==
    IF g.dirty \/ dirty
    THEN arrange(focus(refullscreen(g.s, 1, 1), NULL), NULL)
    ELSE g.s

\* sw and sh hold the size of the event when dirty is computed from them
configurenotify_root(s, ev, ptr) ==
    configurenotify_dirty(updategeom(s, ev.info, ptr),
                          s.sw # ev.width \/ s.sh # ev.height)

configurenotify(s, ev, ptr) ==
    configurenotify_root([s EXCEPT !.sw = ev.width, !.sh = ev.height], ev, ptr)

\* ConfigureRequest for window w; ev.value_mask is the set of the fields named
configurerequest(s, w, ev) ==
    IF window_to_client(s, w) = NULL THEN s
    ELSE LET c == s.cl[w]
             m == s.mons[c.mon]
             mask == ev.value_mask
         IN  IF "CWBorderWidth" \in mask
             THEN [s EXCEPT !.cl[w].border_width = ev.border_width]
             ELSE IF c.isfloating \/ ~Arranges(current_layout(s, s.selmon))
             THEN LET c1 == IF "CWX" \in mask
                            THEN [c EXCEPT !.oldx = c.x, !.x = m.mx + ev.x] ELSE c
                      c2 == IF "CWY" \in mask
                            THEN [c1 EXCEPT !.oldy = c.y, !.y = m.my + ev.y] ELSE c1
                      c3 == IF "CWWidth" \in mask
                            THEN [c2 EXCEPT !.oldw = c.w, !.w = ev.width] ELSE c2
                      c4 == IF "CWHeight" \in mask
                            THEN [c3 EXCEPT !.oldh = c.h, !.h = ev.height] ELSE c3
                      c5 == IF c4.x + c4.w > m.mx + m.mw /\ c4.isfloating
                            THEN [c4 EXCEPT !.x = m.mx + (CDiv(m.mw, 2) - CDiv(WIDTH(c4), 2))]
                            ELSE c4
                      c6 == IF c5.y + c5.h > m.my + m.mh /\ c5.isfloating
                            THEN [c5 EXCEPT !.y = m.my + (CDiv(m.mh, 2) - CDiv(HEIGHT(c5), 2))]
                            ELSE c5
                  IN  [s EXCEPT !.cl[w] = c6]
             ELSE s

\* ClientMessage _NET_WM_STATE naming _NET_WM_STATE_FULLSCREEN; action is
\* data.l[0]: 0 remove, 1 add, 2 toggle
clientmessage(s, w, action) ==
    IF window_to_client(s, w) = NULL THEN s
    ELSE setfullscreen(s, w, action = 1 \/ (action = 2 /\ ~s.cl[w].isfullscreen))

\* EnterNotify with mode NotifyNormal and a detail other than NotifyInferior;
\* w = NULL stands for the root window
enternotify(s, w, ptr) ==
    LET c == IF w = NULL THEN NULL ELSE window_to_client(s, w)
        m == IF c # NULL THEN s.cl[c].mon
             ELSE IF w = NULL THEN root_to_monitor(s, ptr)
             ELSE window_to_monitor(s, w)
    IN  IF m # s.selmon
        THEN focus([unfocus(s, s.mons[s.selmon].selected_client, TRUE)
                       EXCEPT !.selmon = m], c)
        ELSE IF c = NULL \/ c = s.mons[s.selmon].selected_client THEN s
        ELSE focus(s, c)

\* MotionNotify on the root window
motionnotify(s, ptr) ==
    LET m == recttomon(s, ptr.x, ptr.y, 1, 1)
        s1 == IF m # s.mmon /\ s.mmon # NULL
              THEN focus([unfocus(s, s.mons[s.selmon].selected_client, TRUE)
                             EXCEPT !.selmon = m], NULL)
              ELSE s
    IN  [s1 EXCEPT !.mmon = m]

\* ButtonPress on the window of a client, with no entry of buttons[] matching
buttonpress(s, w) ==
    LET m == window_to_monitor(s, w)
        s1 == IF m # s.selmon
              THEN focus([unfocus(s, s.mons[s.selmon].selected_client, TRUE)
                             EXCEPT !.selmon = m], NULL)
              ELSE s
    IN  IF window_to_client(s1, w) # NULL THEN focus(s1, w) ELSE s1

\* PropertyNotify for a managed window, by the property that changed:
\* WM_TRANSIENT_FOR now naming window trans
propertynotify_transient(s, w, trans) ==
    IF window_to_client(s, w) = NULL THEN s
    ELSE IF ~s.cl[w].isfloating /\ trans # NULL
    THEN (IF window_to_client(s, trans) # NULL
          THEN arrange([s EXCEPT !.cl[w].isfloating = TRUE], s.cl[w].mon)
          ELSE s)
    ELSE s

\* WM_NORMAL_HINTS now being size
propertynotify_normal_hints(s, w, size) ==
    IF window_to_client(s, w) = NULL THEN s
    ELSE [s EXCEPT !.cl[w] = updatesizehints(@, size)]

\* _NET_WM_WINDOW_TYPE changed: updatewindowtype reads state and type again
propertynotify_window_type(s, w, fullscreen, dialog) ==
    IF window_to_client(s, w) = NULL THEN s
    ELSE updatewindowtype(s, w, fullscreen, dialog)

-----------------------------------------------------------------------------
(* What the environment can send: the inputs of the handlers *)

\* the screens Xinerama reports
ScreenA == [x |-> 0, y |-> 0, w |-> 1920, h |-> 1080]
ScreenB == [x |-> 1920, y |-> 0, w |-> 1280, h |-> 1024]
ScreenConfigs == {<<ScreenA>>, <<ScreenA, ScreenB>>}

\* screen lists that grow, shrink, change their rectangles and repeat one
GeomConfigs ==
    {<<ScreenA>>, <<ScreenA, ScreenB>>, <<ScreenB>>, <<ScreenB, ScreenA>>,
     <<ScreenA, ScreenA>>}

\* where the pointer is when a drag begins and where it is reported later
DragStart == [ok |-> TRUE, x |-> 600, y |-> 300]
DragSpots ==
    {[ok |-> TRUE, x |-> 610, y |-> 300], [ok |-> TRUE, x |-> 700, y |-> 400]}

\* the size of the root window that goes with a list of screens
RootWidth(info) ==
    LET r == {info[k].x + info[k].w : k \in 1..Len(info)}
    IN  CHOOSE v \in r : \A u \in r : u <= v
RootHeight(info) ==
    LET r == {info[k].y + info[k].h : k \in 1..Len(info)}
    IN  CHOOSE v \in r : \A u \in r : u <= v

\* where XQueryPointer finds the pointer: on ScreenA or on ScreenB
PointerSpots ==
    {[ok |-> TRUE, x |-> 960, y |-> 540], [ok |-> TRUE, x |-> 2560, y |-> 512]}

\* XWindowAttributes of a window asking to be mapped
WindowAttrs ==
    {[x |-> 0, y |-> 0, w |-> 800, h |-> 600, border_width |-> 0,
      override_redirect |-> o] : o \in BOOLEAN}

\* WM_NORMAL_HINTS: none, a minimum size taller than a screen, a fixed size
NoHints ==
    [flags |-> {}, base_width |-> 0, base_height |-> 0,
     min_width |-> 0, min_height |-> 0, width_inc |-> 0, height_inc |-> 0,
     max_width |-> 0, max_height |-> 0,
     min_aspect_x |-> 0, min_aspect_y |-> 0, max_aspect_x |-> 0, max_aspect_y |-> 0]
TallHints ==
    [NoHints EXCEPT !.flags = {"PMinSize"}, !.min_width = 100, !.min_height = 1100]
FixedHints ==
    [NoHints EXCEPT !.flags = {"PMinSize", "PMaxSize"},
                    !.min_width = 400, !.min_height = 300,
                    !.max_width = 400, !.max_height = 300]

\* WM_NORMAL_HINTS of a terminal (cells of 16 pixels) and of a window with a
\* maximum size
CellHints ==
    [NoHints EXCEPT !.flags = {"PResizeInc"}, !.width_inc = 16, !.height_inc = 16]
NarrowHints ==
    [NoHints EXCEPT !.flags = {"PMaxSize"}, !.max_width = 10, !.max_height = 600]
SizeHints == {NoHints, TallHints, FixedHints, CellHints, NarrowHints}

\* the rectangles asked of applysizehints
Rectangles ==
    [x : {-20, 0, 1900}, y : {-20, 30}, w : {25, 640}, h : {25, 480}]

\* what the server answers about a window being managed
WinInfo(trans, class, fullscreen, size) ==
    [trans |-> trans, class |-> class, fullscreen |-> fullscreen,
     dialog |-> FALSE, size |-> size, neverfocus |-> FALSE]

\* XConfigureRequestEvent: a border request, a move-and-resize request
ConfigureRequests ==
    {[value_mask |-> {"CWBorderWidth"}, x |-> 0, y |-> 0,
      width |-> 0, height |-> 0, border_width |-> 2],
     [value_mask |-> {"CWX", "CWY", "CWWidth", "CWHeight"}, x |-> 10, y |-> 30,
      width |-> 640, height |-> 480, border_width |-> 0]}

\* the tag indices of the key table, one index past the tags, and one that
\* shifts by the width of the word
TagArgs == 0..MaxTagArg
ViewArgs == TagArgs \cup {NumTags, WordBits}
Directions == {-1, 1}

\* arguments of setmfact in hundredths: differences, absolute values
\* (1.00 + mfact) and values that lead out of [0.05, 0.95]
MfactArgs == {-150, -60, -5, 5, 45, 104, 105, 127, 195, 196, 250}

\* what an out-of-bounds read of layouts[] can yield in a handler
OobReads(fresh) ==
    IF fresh \/ \E i \in 1..Len(monitors) : LayoutIndexOutOfRange(monitors[i])
    THEN LayoutIds ELSE {"tile"}

\* the step of setgaps and the largest gap the model follows
GapStep == 520
MaxGap == MaxGapSteps * GapStep

-----------------------------------------------------------------------------
(* The state after setup(): updategeom() on the screens found, no client,  *)
(* _NET_CLIENT_LIST deleted, focus(NULL)                                   *)

setup(info, ptr) ==
    LET s0 == [mons |-> <<>>, cl |-> <<>>, selmon |-> NULL, ncl |-> <<>>,
               active |-> NULL, sw |-> RootWidth(info), sh |-> RootHeight(info),
               mmon |-> NULL, running |-> TRUE, grabbed |-> FALSE,
               handler |-> "xerror", pc |-> "run", drag |-> NULL,
               oob |-> "tile"]
    IN  focus(updategeom(s0, info, ptr).s, NULL)

InitWith(configs) ==
    \E info \in configs, ptr \in PointerSpots :
        LET s == setup(info, ptr)
        IN  /\ monitors = s.mons
            /\ clients = s.cl
            /\ selected_monitor = s.selmon
            /\ net_client_list = s.ncl
            /\ net_active = s.active
            /\ sw = s.sw
            /\ sh = s.sh
            /\ motion_mon = s.mmon
            /\ running = s.running
            /\ server_grabbed = s.grabbed
            /\ error_handler = s.handler
            /\ pc = s.pc
            /\ drag = s.drag

Init == InitWith(ScreenConfigs)

-----------------------------------------------------------------------------
(* One action per event handler of handler[] and per bound command.  An    *)
(* early return of the handler is the guard of its action.                 *)

ev_maprequest(w, wa, win) ==
    /\ ~wa.override_redirect
    /\ w \notin DOMAIN clients
    /\ \E oob \in OobReads(FALSE) : Becomes(maprequest(State(oob), w, wa, win))

ev_destroynotify(w) ==
    /\ w \in DOMAIN clients
    /\ \E oob \in OobReads(FALSE) : Becomes(destroynotify(State(oob), w))

ev_unmapnotify(w, send_event) ==
    /\ w \in DOMAIN clients
    /\ \E oob \in OobReads(FALSE) : Becomes(unmapnotify(State(oob), w, send_event))

ev_configurenotify(info, ptr) ==
    \E oob \in OobReads(FALSE) :
        Becomes(configurenotify(State(oob),
                                [width |-> RootWidth(info),
                                 height |-> RootHeight(info), info |-> info],
                                ptr))

ev_configurerequest(w, ev) ==
    /\ w \in DOMAIN clients
    /\ \E oob \in OobReads(FALSE) : Becomes(configurerequest(State(oob), w, ev))

ev_clientmessage(w, action) ==
    /\ w \in DOMAIN clients
    /\ \E oob \in OobReads(FALSE) : Becomes(clientmessage(State(oob), w, action))

ev_enternotify(w, ptr) ==
    /\ w = NULL \/ w \in DOMAIN clients
    /\ \E oob \in OobReads(FALSE) : Becomes(enternotify(State(oob), w, ptr))

ev_motionnotify(ptr) ==
    \E oob \in OobReads(FALSE) : Becomes(motionnotify(State(oob), ptr))

ev_buttonpress(w) ==
    /\ w \in DOMAIN clients
    /\ \E oob \in OobReads(FALSE) : Becomes(buttonpress(State(oob), w))

ev_propertynotify_transient(w, trans) ==
    /\ w \in DOMAIN clients
    /\ \E oob \in OobReads(FALSE) :
           Becomes(propertynotify_transient(State(oob), w, trans))

ev_propertynotify_normal_hints(w, size) ==
    /\ w \in DOMAIN clients
    /\ \E oob \in OobReads(FALSE) :
           Becomes(propertynotify_normal_hints(State(oob), w, size))

ev_propertynotify_window_type(w, fullscreen, dialog) ==
    /\ w \in DOMAIN clients
    /\ \E oob \in OobReads(FALSE) :
           Becomes(propertynotify_window_type(State(oob), w, fullscreen, dialog))

keypress_view(index) ==
    \E oob \in OobReads(~ULess(index, NumTags)), shl \in Shl1(index) :
        Becomes(view(State(oob), index, shl))

keypress_toggleview(index) ==
    \E oob \in OobReads(FALSE), shl \in Shl1(index) :
        Becomes(toggleview(State(oob), index, shl))

keypress_tag(index) ==
    /\ monitors[selected_monitor].selected_client # NULL
    /\ \E oob \in OobReads(FALSE), shl \in Shl1(index) :
           Becomes(tag(State(oob), index, shl))

keypress_toggletag(index) ==
    /\ monitors[selected_monitor].selected_client # NULL
    /\ \E oob \in OobReads(FALSE), shl \in Shl1(index) :
           Becomes(toggletag(State(oob), index, shl))

keypress_tagmon(dir) ==
    /\ monitors[selected_monitor].selected_client # NULL
    /\ Len(monitors) > 1
    /\ \E oob \in OobReads(FALSE) : Becomes(tagmon(State(oob), dir))

keypress_focusmon(dir) ==
    /\ Len(monitors) > 1
    /\ \E oob \in OobReads(FALSE) : Becomes(focusmon(State(oob), dir))

keypress_focusstack(dir) ==
    /\ monitors[selected_monitor].selected_client # NULL
    /\ \E oob \in OobReads(FALSE) : Becomes(focusstack(State(oob), dir))

keypress_zoom ==
    \E oob \in OobReads(FALSE) : Becomes(zoom(State(oob)))

\* exists is what sendevent returns: WM_DELETE_WINDOW is among WM_PROTOCOLS
keypress_kill_selected_client(exists) ==
    /\ monitors[selected_monitor].selected_client # NULL
    /\ \E oob \in OobReads(FALSE) :
          LET s == State(oob)
              grabbed == [s EXCEPT !.grabbed = TRUE, !.handler = "xerrordummy"]
          IN  Becomes(IF ~exists
                      THEN [grabbed EXCEPT !.handler = "xerror", !.grabbed = FALSE]
                      ELSE s)

keypress_quit ==
    \E oob \in OobReads(FALSE) : Becomes([State(oob) EXCEPT !.running = FALSE])

\* cleanup, up to the loop over the monitors: view(~0) and the store of the
\* dummy layout, which has no arrange function
cleanup_view ==
    /\ pc = "run"
    /\ ~running
    /\ \E oob \in OobReads(TRUE), shl \in Shl1(-1) :
          LET s1 == view(State(oob), -1, shl)
          IN  Becomes([s1 EXCEPT !.mons[s1.selmon] = set_layout(@, "float"),
                                 !.pc = "cleanup"])

\* one turn of the inner loop of cleanup: unmanage(m->stack, 0) for the first
\* monitor m whose stack is not empty
cleanup_unmanage ==
    /\ pc = "cleanup"
    /\ \E i \in 1..Len(monitors) :
          /\ monitors[i].stack # <<>>
          /\ \A j \in 1..(i - 1) : monitors[j].stack = <<>>
          /\ \E oob \in OobReads(FALSE) :
                Becomes(unmanage(State(oob), Head(monitors[i].stack), FALSE))

\* the rest of cleanup: cleanupmon for every monitor, _NET_ACTIVE_WINDOW
\* deleted; selected_monitor is left as it is
cleanup_monitors ==
    /\ pc = "cleanup"
    /\ \A i \in 1..Len(monitors) : monitors[i].stack = <<>>
    /\ \E oob \in OobReads(FALSE) :
          Becomes([State(oob) EXCEPT !.mons = <<>>, !.active = NULL, !.pc = "exit"])

\* movemouse up to its loop; ptr is what getrootptr returns
movemouse_begin(ptr) ==
    /\ pc = "run"
    /\ monitors[selected_monitor].selected_client # NULL
    /\ ~clients[monitors[selected_monitor].selected_client].isfullscreen
    /\ ptr.ok
    /\ \E oob \in OobReads(FALSE) :
          LET c == monitors[selected_monitor].selected_client
          IN  Becomes([State(oob) EXCEPT
                         !.pc = "movemouse",
                         !.drag = [c |-> c, ocx |-> clients[c].x, ocy |-> clients[c].y,
                                   x |-> ptr.x, y |-> ptr.y]])

\* one MotionNotify taken by the loop of movemouse, the pointer at ptr
movemouse_motion(ptr) ==
    /\ pc = "movemouse"
    /\ \E oob \in OobReads(FALSE) :
          LET s == State(oob)
              abs(a) == IF a < 0 THEN -a ELSE a
              c == drag.c
              m == monitors[selected_monitor]
              nx0 == drag.ocx + (ptr.x - drag.x)
              ny0 == drag.ocy + (ptr.y - drag.y)
              nx == IF abs(m.wx - nx0) < snap THEN m.wx
                    ELSE IF abs((m.wx + m.ww) - (nx0 + WIDTH(clients[c]))) < snap
                    THEN m.wx + m.ww - WIDTH(clients[c])
                    ELSE nx0
              ny == IF abs(m.wy - ny0) < snap THEN m.wy
                    ELSE IF abs((m.wy + m.wh) - (ny0 + HEIGHT(clients[c]))) < snap
                    THEN m.wy + m.wh - HEIGHT(clients[c])
                    ELSE ny0
              layout == current_layout(s, selected_monitor)
              s1 == IF /\ ~clients[c].isfloating
                       /\ Arranges(layout)
                       /\ (abs(nx - clients[c].x) > snap \/ abs(ny - clients[c].y) > snap)
                    THEN togglefloating(s)
                    ELSE s
          IN  Becomes(IF ~Arranges(layout) \/ s1.cl[c].isfloating
                      THEN resize(s1, c, nx, ny, s1.cl[c].w, s1.cl[c].h, TRUE)
                      ELSE s1)

\* ButtonRelease ends the loop of movemouse; the client goes to the monitor
\* its rectangle is on
movemouse_release ==
    /\ pc = "movemouse"
    /\ \E oob \in OobReads(FALSE) :
          LET s == [State(oob) EXCEPT !.pc = "run", !.drag = NULL]
              c == drag.c
              m == recttomon(s, clients[c].x, clients[c].y, clients[c].w, clients[c].h)
          IN  Becomes(IF m # selected_monitor
                      THEN focus([sendmon(s, c, m) EXCEPT !.selmon = m], NULL)
                      ELSE s)

keypress_togglefloating ==
    /\ monitors[selected_monitor].selected_client # NULL
    /\ \E oob \in OobReads(FALSE) : Becomes(togglefloating(State(oob)))

keypress_setlayout(layout) ==
    \E oob \in OobReads(FALSE) : Becomes(setlayout(State(oob), layout))

keypress_togglebar ==
    \E oob \in OobReads(FALSE) : Becomes(togglebar(State(oob)))

keypress_setmfact(f) ==
    \E oob \in OobReads(FALSE) : Becomes(setmfact(State(oob), f))

\* the model follows gaps up to MaxGap
keypress_setgaps(i) ==
    /\ monitors[selected_monitor].gappx + i <= MaxGap
    /\ \E oob \in OobReads(FALSE) : Becomes(setgaps(State(oob), i))

\* the model follows masters_count up to MaxMasters
keypress_change_masters_count(i) ==
    /\ monitors[selected_monitor].masters_count + i <= MaxMasters
    /\ \E oob \in OobReads(FALSE) : Becomes(change_masters_count(State(oob), i))

-----------------------------------------------------------------------------
(* Groups of actions, by the inputs the specifications below feed them *)

\* regular windows and transient ones, without size hints
MapRequests(windows, classes) ==
    \E w \in windows, wa \in WindowAttrs, trans \in {NULL} \cup Windows,
       class \in classes :
        ev_maprequest(w, wa, WinInfo(trans, class, FALSE, NoHints))

ClientsGo ==
    \/ \E w \in Windows : ev_destroynotify(w)
    \/ \E w \in Windows, send_event \in BOOLEAN : ev_unmapnotify(w, send_event)

ViewAndTag ==
    \/ \E index \in TagArgs : keypress_view(index)
    \/ \E index \in TagArgs : keypress_tag(index)

ToggleTags ==
    \/ \E index \in TagArgs : keypress_toggleview(index)
    \/ \E index \in TagArgs : keypress_toggletag(index)

MonitorCommands ==
    \/ \E dir \in Directions : keypress_tagmon(dir)
    \/ \E dir \in Directions : keypress_focusmon(dir)

PointerEvents ==
    \/ \E w \in {NULL} \cup Windows, ptr \in PointerSpots : ev_enternotify(w, ptr)
    \/ \E w \in Windows : ev_buttonpress(w)

PointerMoves == \E ptr \in PointerSpots : ev_motionnotify(ptr)

FocusCommands ==
    \/ \E dir \in Directions : keypress_focusstack(dir)
    \/ keypress_zoom

ScreenChanges ==
    \E info \in ScreenConfigs, ptr \in PointerSpots : ev_configurenotify(info, ptr)

-----------------------------------------------------------------------------
(* Spec: the window manager on one or two screens.  Clients come and go,   *)
(* are retagged, focused and moved; monitors come and go.                  *)

Next ==
    \/ MapRequests(Windows, {XTerm})
    \/ ClientsGo
    \/ \E index \in TagArgs : keypress_tag(index)
    \/ MonitorCommands
    \/ FocusCommands
    \/ ScreenChanges

Spec == Init /\ [][Next]_vars

(* SpecOps: every command and event that changes what is selected or what  *)
(* is visible, for one window on a fixed set of screens                    *)

NextOps ==
    \/ \E wa \in WindowAttrs, class \in {XTerm, Gimp, GimpVersioned} :
           ev_maprequest(1, wa, WinInfo(NULL, class, FALSE, NoHints))
    \/ ClientsGo
    \/ ViewAndTag
    \/ ToggleTags
    \/ MonitorCommands
    \/ PointerEvents
    \/ PointerMoves

SpecOps == Init /\ [][NextOps]_vars

(* SpecTags: the views of the monitors, with view arguments that index no  *)
(* tag, while monitors come and go                                         *)

NextTags ==
    \/ \E index \in ViewArgs : keypress_view(index)
    \/ \E index \in TagArgs : keypress_toggleview(index)
    \/ \E dir \in Directions : keypress_focusmon(dir)
    \/ ScreenChanges

SpecTags == Init /\ [][NextTags]_vars

(* SpecClientTags: the tags of the clients under rules, transient windows, *)
(* tag commands and moves between monitors, the monitors keeping their view *)

NextClientTags ==
    \/ MapRequests(Windows, {XTerm, Gimp, GimpVersioned})
    \/ ClientsGo
    \/ \E index \in TagArgs : keypress_tag(index)
    \/ \E index \in TagArgs : keypress_toggletag(index)
    \/ MonitorCommands
    \/ \E dir \in Directions : keypress_focusstack(dir)

SpecClientTags == Init /\ [][NextClientTags]_vars

(* SpecFullscreen: fullscreen and floating clients under the requests of   *)
(* their windows, moves between monitors and screen changes                *)

NextFullscreen ==
    \/ \E wa \in WindowAttrs, trans \in {NULL} \cup Windows, fullscreen \in BOOLEAN :
           ev_maprequest(1, wa, WinInfo(trans, XTerm, fullscreen, NoHints))
    \/ \E w \in Windows : ev_destroynotify(w)
    \/ \E w \in Windows, action \in 0..2 : ev_clientmessage(w, action)
    \/ \E w \in Windows, ev \in ConfigureRequests : ev_configurerequest(w, ev)
    \/ \E w \in Windows, trans \in Windows : ev_propertynotify_transient(w, trans)
    \/ \E w \in Windows, fullscreen \in BOOLEAN, dialog \in BOOLEAN :
           ev_propertynotify_window_type(w, fullscreen, dialog)
    \/ keypress_togglefloating
    \/ MonitorCommands
    \/ ScreenChanges

SpecFullscreen == Init /\ [][NextFullscreen]_vars

(* SpecTile: the tile layout on one screen, with gaps, several masters,    *)
(* the bar shown or hidden and windows with size hints                     *)

NextTile ==
    \/ \E w \in TiledWindows, wa \in WindowAttrs, size \in {NoHints, TallHints} :
           ev_maprequest(w, wa, WinInfo(NULL, XTerm, FALSE, size))
    \/ \E w \in TiledWindows : ev_destroynotify(w)
    \/ \E i \in {-GapStep, 0, GapStep} : keypress_setgaps(i)
    \/ \E i \in Directions : keypress_change_masters_count(i)
    \/ keypress_togglebar
    \/ keypress_zoom

SpecTile == InitWith({<<ScreenA>>}) /\ [][NextTile]_vars

(* SpecZoom: up to three windows on one screen, tiled or of a fixed size   *)
(* and so floating, focus moved through the stack, and zoom                *)

NextZoom ==
    \/ \E w \in TiledWindows, wa \in WindowAttrs, size \in {NoHints, FixedHints} :
           ev_maprequest(w, wa, WinInfo(NULL, XTerm, FALSE, size))
    \/ \E w \in TiledWindows : ev_destroynotify(w)
    \/ \E dir \in Directions : keypress_focusstack(dir)
    \/ \E layout \in {"tile", "float"} : keypress_setlayout(layout)
    \/ keypress_zoom

SpecZoom == InitWith({<<ScreenA>>}) /\ [][NextZoom]_vars

(* SpecView: two windows on one screen, views changed and toggled, tags of *)
(* the selected client toggled, focus moved through the stack             *)

NextView ==
    \/ \E w \in Windows, wa \in WindowAttrs :
           ev_maprequest(w, wa, WinInfo(NULL, XTerm, FALSE, NoHints))
    \/ \E w \in Windows : ev_destroynotify(w)
    \/ \E index \in TagArgs : keypress_view(index)
    \/ \E index \in TagArgs : keypress_toggleview(index)
    \/ \E index \in TagArgs : keypress_toggletag(index)
    \/ \E dir \in Directions : keypress_focusstack(dir)

SpecView == InitWith({<<ScreenA>>}) /\ [][NextView]_vars

(* SpecRules: windows of classes with and without a rule on one screen,    *)
(* while the views include and exclude the tag of the rule                 *)

RuleTagArgs == {0, 3}

NextRules ==
    \/ \E w \in Windows, wa \in WindowAttrs, class \in {XTerm, Gimp, GimpVersioned} :
           ev_maprequest(w, wa, WinInfo(NULL, class, FALSE, NoHints))
    \/ \E w \in Windows : ev_destroynotify(w)
    \/ \E index \in RuleTagArgs : keypress_view(index)
    \/ \E index \in RuleTagArgs : keypress_toggleview(index)

SpecRules == InitWith({<<ScreenA>>}) /\ [][NextRules]_vars

(* SpecHints: a window with the size hints of SizeHints on one screen,     *)
(* tiled and floating, its hints replaced and its geometry requested       *)

NextHints ==
    \/ \E wa \in WindowAttrs, size \in SizeHints :
           ev_maprequest(1, wa, WinInfo(NULL, XTerm, FALSE, size))
    \/ ev_destroynotify(1)
    \/ \E size \in SizeHints : ev_propertynotify_normal_hints(1, size)
    \/ \E ev \in ConfigureRequests : ev_configurerequest(1, ev)
    \/ keypress_togglefloating

SpecHints == InitWith({<<ScreenA>>}) /\ [][NextHints]_vars

(* SpecMfact: setmfact with the arguments of MfactArgs on one screen with  *)
(* up to two windows, in layouts that arrange and in the floating layout   *)

NextMfact ==
    \/ \E w \in Windows, wa \in WindowAttrs :
           ev_maprequest(w, wa, WinInfo(NULL, XTerm, FALSE, NoHints))
    \/ \E w \in Windows : ev_destroynotify(w)
    \/ \E layout \in LayoutIds : keypress_setlayout(layout)
    \/ \E f \in MfactArgs : keypress_setmfact(f)

SpecMfact == InitWith({<<ScreenA>>}) /\ [][NextMfact]_vars

(* SpecFocus: up to three windows on one screen, some moved to a tag that  *)
(* is not viewed, some made fullscreen, and the focus moved through them   *)

NextFocus ==
    \/ \E w \in TiledWindows, wa \in WindowAttrs :
           ev_maprequest(w, wa, WinInfo(NULL, XTerm, FALSE, NoHints))
    \/ \E w \in TiledWindows : ev_destroynotify(w)
    \/ \E action \in 0..1 : ev_clientmessage(1, action)
    \/ keypress_tag(1)
    \/ \E dir \in Directions : keypress_focusstack(dir)

SpecFocus == InitWith({<<ScreenA>>}) /\ [][NextFocus]_vars

(* SpecConfigure: windows on two screens whose layouts are set one by one, *)
(* the selected monitor changed, and configure requests for the windows    *)

NextConfigure ==
    \/ \E w \in Windows, wa \in WindowAttrs :
           ev_maprequest(w, wa, WinInfo(NULL, XTerm, FALSE, NoHints))
    \/ \E w \in Windows : ev_destroynotify(w)
    \/ \E dir \in Directions : keypress_focusmon(dir)
    \/ \E layout \in {"tile", "float"} : keypress_setlayout(layout)
    \/ \E w \in Windows, ev \in ConfigureRequests : ev_configurerequest(w, ev)

SpecConfigure == InitWith({<<ScreenA, ScreenB>>}) /\ [][NextConfigure]_vars

(* SpecQuit: windows on two screens come and go and are killed until quit *)
(* ends the event loop; cleanup follows.  run dispatches an event only     *)
(* while running is set.                                                   *)

NextQuit ==
    \/ /\ running /\ pc = "run"
       /\ \E w \in Windows, wa \in WindowAttrs :
             ev_maprequest(w, wa, WinInfo(NULL, XTerm, FALSE, NoHints))
    \/ /\ running /\ pc = "run"
       /\ \E w \in Windows : ev_destroynotify(w)
    \/ /\ running /\ pc = "run"
       /\ \E w \in Windows, send_event \in BOOLEAN : ev_unmapnotify(w, send_event)
    \/ /\ running /\ pc = "run"
       /\ \E index \in TagArgs : keypress_view(index)
    \/ /\ running /\ pc = "run"
       /\ \E dir \in Directions : keypress_focusmon(dir)
    \/ /\ running /\ pc = "run"
       /\ \E exists \in BOOLEAN : keypress_kill_selected_client(exists)
    \/ /\ running /\ pc = "run"
       /\ keypress_quit
    \/ cleanup_view
    \/ cleanup_unmanage
    \/ cleanup_monitors

SpecQuit == InitWith({<<ScreenA, ScreenB>>}) /\ [][NextQuit]_vars

(* SpecGeom: the screens reported by Xinerama grow, shrink and change      *)
(* their rectangles; one window comes and goes, bars are toggled           *)

NextGeom ==
    \/ \E wa \in WindowAttrs :
           ev_maprequest(1, wa, WinInfo(NULL, XTerm, FALSE, NoHints))
    \/ ev_destroynotify(1)
    \/ \E dir \in Directions : keypress_focusmon(dir)
    \/ keypress_togglebar
    \/ \E info \in GeomConfigs, ptr \in PointerSpots : ev_configurenotify(info, ptr)

SpecGeom == InitWith(GeomConfigs) /\ [][NextGeom]_vars

(* SpecActive: windows that take the input focus and windows whose         *)
(* WM_HINTS refuse it come and go on one screen, the focus moves           *)

NextActive ==
    \/ \E w \in Windows, wa \in WindowAttrs, neverfocus \in BOOLEAN :
           ev_maprequest(w, wa, [WinInfo(NULL, XTerm, FALSE, NoHints)
                                    EXCEPT !.neverfocus = neverfocus])
    \/ ClientsGo
    \/ \E index \in TagArgs : keypress_view(index)
    \/ \E dir \in Directions : keypress_focusstack(dir)

SpecActive == InitWith({<<ScreenA>>}) /\ [][NextActive]_vars

(* SpecMove: a client is dragged with movemouse on one screen; the loop of *)
(* movemouse takes motion events and map requests until the button is      *)
(* released.  A drag begins while every client is tiled.                   *)

NextMove ==
    \/ /\ pc \in {"run", "movemouse"}
       /\ \E w \in TiledWindows, wa \in WindowAttrs :
             ev_maprequest(w, wa, WinInfo(NULL, XTerm, FALSE, NoHints))
    \/ /\ pc = "run"
       /\ \E w \in TiledWindows : ev_destroynotify(w)
    \/ /\ \A w \in DOMAIN clients : ~clients[w].isfloating
       /\ movemouse_begin(DragStart)
    \/ \E ptr \in DragSpots : movemouse_motion(ptr)
    \/ movemouse_release

SpecMove == InitWith({<<ScreenA>>}) /\ [][NextMove]_vars

-----------------------------------------------------------------------------
(* Properties *)

\* C1: every managed client is exactly once in the client list of exactly
\* one monitor and exactly once in the focus stack of that same monitor, which
\* is the monitor its monitor field names; the two lists of a monitor hold the
\* same clients, and only managed ones.
ClientInBothListsOfItsMonitor ==
    /\ \A c \in DOMAIN clients :
         /\ clients[c].mon \in 1..Len(monitors)
         /\ \A i \in 1..Len(monitors) :
              LET inClients == {k \in 1..Len(monitors[i].clients) :
                                   monitors[i].clients[k] = c}
                  inStack == {k \in 1..Len(monitors[i].stack) :
                                 monitors[i].stack[k] = c}
                  times == IF i = clients[c].mon THEN 1 ELSE 0
              IN  Cardinality(inClients) = times /\ Cardinality(inStack) = times
    /\ \A i \in 1..Len(monitors) :
         /\ SeqSet(monitors[i].clients) = SeqSet(monitors[i].stack)
         /\ SeqSet(monitors[i].clients) \subseteq DOMAIN clients

\* two clients on the only monitor left, one of them last placed on the
\* second screen: it moved over when its monitor went away
MigratedClientsListed ==
    /\ Len(monitors) = 1
    /\ Len(monitors[1].clients) = 2
    /\ \E c \in DOMAIN clients : clients[c].oldx >= ScreenB.x

\* C2: the selected client of the selected monitor, when there is one, is a
\* managed client of that monitor that is visible under the monitor's current
\* tags.
SelectedClientVisible ==
    LET sel == monitors[selected_monitor].selected_client
    IN  sel # NULL =>
          /\ sel \in DOMAIN clients
          /\ clients[sel].mon = selected_monitor
          /\ ISVISIBLE(State("tile"), sel)

\* the selected client carries two tags and stays selected under a view
\* that shows only the second of them
SelectedThroughSecondTag ==
    LET sel == monitors[selected_monitor].selected_client
    IN  /\ sel # NULL
        /\ clients[sel].tags = {0, 1}
        /\ current_tags(monitors[selected_monitor]) = {1}

\* C3: neither slot of the tagset of any monitor is 0, so the current
\* tag set of every monitor is non-zero.
TagsetsNonZero ==
    \A i \in 1..Len(monitors) :
        /\ monitors[i].tagset[1] # {}
        /\ monitors[i].tagset[2] # {}
        /\ current_tags(monitors[i]) # {}

\* a view with an index past the tags has swapped the slots of a monitor whose
\* other slot held a view of its own
SlotsSwappedByViewPastTags ==
    \E i \in 1..Len(monitors) :
        /\ monitors[i].current_layout_index = NumTags
        /\ monitors[i].tagset[1] # monitors[i].tagset[2]

\* C4: the tags of every client, masked with TAGMASK, are non-zero.
ClientTagsNonZero ==
    \A c \in DOMAIN clients : (clients[c].tags \cap TAGMASK) # {}

\* a client a rule tagged beside a client that toggletag gave a second tag
RuleTaggedAndToggled ==
    \E c, d \in DOMAIN clients :
        /\ clients[c].tags = {3}
        /\ clients[d].tags = {0, 1}

\* C5: _NET_CLIENT_LIST holds exactly the windows of the managed clients,
\* each of them once.
NetClientListIsManaged ==
    /\ SeqSet(net_client_list) = DOMAIN clients
    /\ Len(net_client_list) = Cardinality(DOMAIN clients)

\* one window is left on the list, its client on the second monitor
NetClientListAfterChanges ==
    /\ Len(monitors) = 2
    /\ \E w \in DOMAIN clients :
         /\ net_client_list = <<w>>
         /\ clients[w].mon = 2

\* C6: a fullscreen client has the rectangle of its monitor, no border,
\* and floats.
FullscreenCoversMonitor ==
    \A c \in DOMAIN clients :
        clients[c].isfullscreen =>
            LET m == monitors[clients[c].mon]
            IN  /\ clients[c].x = m.mx
                /\ clients[c].y = m.my
                /\ clients[c].w = m.mw
                /\ clients[c].h = m.mh
                /\ clients[c].border_width = 0
                /\ clients[c].isfloating

\* C7: a fullscreen client floats.
FullscreenFloats ==
    \A c \in DOMAIN clients : clients[c].isfullscreen => clients[c].isfloating

\* a client that was tiled when it went fullscreen, on the second monitor
TiledClientWentFullscreen ==
    \E c \in DOMAIN clients :
        /\ clients[c].isfullscreen
        /\ ~clients[c].oldstate
        /\ clients[c].mon = 2

\* C8: the selected client of every monitor, selected or not, is NULL or
\* visible under the current tags of that monitor.
EveryMonitorSelectionVisible ==
    \A i \in 1..Len(monitors) :
        LET sel == monitors[i].selected_client
        IN  sel # NULL => sel \in DOMAIN clients /\ ISVISIBLE(State("tile"), sel)

\* C9: under the tile layout the rectangles, borders included, of the
\* visible tiled clients of a monitor do not overlap pairwise.  (Every handler
\* of SpecTile ends with arrange on the monitor, followed at most by focus.)
TiledClientsDisjoint ==
    \A i \in 1..Len(monitors) :
        current_layout(State("tile"), i) = "tile" =>
            LET tiled == nexttiled(State("tile"), i)
            IN  \A a, b \in 1..Len(tiled) :
                    a < b =>
                        LET p == clients[tiled[a]]
                            q == clients[tiled[b]]
                        IN  \/ p.x + WIDTH(p) <= q.x
                            \/ q.x + WIDTH(q) <= p.x
                            \/ p.y + HEIGHT(p) <= q.y
                            \/ q.y + HEIGHT(q) <= p.y

\* C10: when a window W2 without size hints is mapped beside the only
\* client W1, tiled and without size hints, on a monitor with one master and
\* no gap, W2 comes first in the client list and takes the master column on
\* the left, ww * mfact wide and as high as the work area; W1 moves to the
\* right column, which it fills.
NewWindowTakesMasterColumn ==
    [][\A w1, w2 \in TiledWindows :
          LET m == monitors[1]
              mw == (m.ww * m.mfact) \div 100
          IN  (/\ DOMAIN clients = {w1}
               /\ DOMAIN clients' = {w1, w2}
               /\ w1 # w2
               /\ ~clients[w1].isfloating
               /\ clients[w1].minh = 0
               /\ clients'[w2].minh = 0
               /\ m.masters_count = 1
               /\ m.gappx = 0)
              =>
              (/\ monitors'[1].clients = <<w2, w1>>
               /\ clients'[w2].x = m.wx
               /\ clients'[w2].y = m.wy
               /\ WIDTH(clients'[w2]) = mw
               /\ HEIGHT(clients'[w2]) = m.wh
               /\ clients'[w1].x = m.wx + mw
               /\ clients'[w1].y = m.wy
               /\ WIDTH(clients'[w1]) = m.ww - mw
               /\ HEIGHT(clients'[w1]) = m.wh)]_vars

\* W2 mapped after W1: W2 is the master on the left, W1 is on the right
SecondWindowIsMaster ==
    LET m == monitors[1]
    IN  /\ m.clients = <<2, 1>>
        /\ m.masters_count = 1
        /\ m.gappx = 0
        /\ clients[1].minh = 0
        /\ clients[2].minh = 0
        /\ clients[2].x = m.wx
        /\ clients[1].x = m.wx + (m.ww * m.mfact) \div 100

\* C10 as stated: W1 stays in the master column on the left and the new
\* window W2 fills the right column.
FirstWindowKeepsMasterColumn ==
    [][\A w1, w2 \in TiledWindows :
          LET m == monitors[1]
              mw == (m.ww * m.mfact) \div 100
          IN  (/\ DOMAIN clients = {w1}
               /\ DOMAIN clients' = {w1, w2}
               /\ w1 # w2
               /\ ~clients[w1].isfloating
               /\ clients[w1].minh = 0
               /\ clients'[w2].minh = 0
               /\ m.masters_count = 1
               /\ m.gappx = 0)
              =>
              (/\ clients'[w1].x = m.wx
               /\ WIDTH(clients'[w1]) = mw
               /\ clients'[w2].x = m.wx + mw
               /\ clients'[w2].y = m.wy
               /\ HEIGHT(clients'[w2]) = m.wh)]_vars


-----------------------------------------------------------------------------
\* C11: a zoom on the selected monitor, whose layout arranges and whose
\* selected client sel is tiled, moves one client to the head of the client
\* list, selects it and gives it the master position: sel itself if sel is
\* not the first tiled client, the tiled client after sel if sel is the first
\* one (nothing moves when there is no such client).  For W1 mapped and then
\* W2, which leaves the list <<W2, W1>> with W2 selected, zoom therefore puts
\* W1 in front of W2.
ZoomPromotesSelectedOrNext ==
    [][keypress_zoom =>
          LET i == selected_monitor
              m == monitors[i]
              sel == m.selected_client
              tiled == nexttiled(State("tile"), i)
              promoted == IF sel # Head(tiled) THEN sel
                          ELSE IF Len(tiled) >= 2 THEN tiled[2] ELSE NULL
          IN  (sel # NULL /\ ~clients[sel].isfloating)
              => IF promoted = NULL THEN UNCHANGED vars
                 ELSE /\ monitors'[i].clients
                           = <<promoted>> \o Remove(m.clients, promoted)
                      /\ monitors'[i].selected_client = promoted
                      /\ clients'[promoted].x = m.wx
                      /\ clients'[promoted].y = m.wy
                      /\ (m.clients = <<2, 1>> /\ sel = 2
                            => monitors'[i].clients = <<1, 2>>)]_vars

\* a selected tiled client that was not the first tiled one is now the head
\* of the client list, in the master position, behind it a floating client
\* and the former master
ZoomedFromBehind ==
    LET m == monitors[1]
    IN  /\ m.clients = <<1, 3, 2>>
        /\ m.selected_client = 1
        /\ clients[3].isfloating
        /\ ~clients[1].isfloating
        /\ ~clients[2].isfloating
        /\ clients[1].x = m.wx
        /\ clients[1].y = m.wy
        /\ clients[2].x > m.wx

\* C11 as stated: with W1 mapped and then W2, both tiled and W2 selected, a
\* zoom leaves W2 in front of W1 in the client list and in the master
\* position.
ZoomKeepsNewestInFront ==
    [][keypress_zoom =>
          LET m == monitors[1]
          IN  (/\ m.clients = <<2, 1>>
               /\ m.selected_client = 2
               /\ ~clients[1].isfloating
               /\ ~clients[2].isfloating)
              => /\ monitors'[1].clients = <<2, 1>>
                 /\ clients'[2].x = m.wx
                 /\ clients'[2].y = m.wy]_vars

-----------------------------------------------------------------------------
\* C12: on a single 1920x1080 monitor with the bar shown at the top, the
\* tile layout, one master, no gap and no client, mapping a regular window
\* W1 without size hints places it at (0, bh) with the size
\* (1920 - 2 * borderpx, 1080 - bh - 2 * borderpx), border borderpx, selects
\* it, and makes _NET_CLIENT_LIST the list of W1 alone.
FirstWindowFillsWindowArea ==
    [][\A w1 \in TiledWindows :
          LET m == monitors[1]
          IN  (/\ Len(monitors) = 1
               /\ m.mw = 1920 /\ m.mh = 1080
               /\ m.showbar /\ m.topbar
               /\ current_layout(State("tile"), 1) = "tile"
               /\ m.masters_count = 1
               /\ m.gappx = 0
               /\ DOMAIN clients = {}
               /\ DOMAIN clients' = {w1}
               /\ clients'[w1].minh = 0)
              =>
              (/\ clients'[w1].x = 0
               /\ clients'[w1].y = bh
               /\ clients'[w1].w = 1920 - 2 * borderpx
               /\ clients'[w1].h = 1080 - bh - 2 * borderpx
               /\ clients'[w1].border_width = borderpx
               /\ ~clients'[w1].isfloating
               /\ monitors'[1].selected_client = w1
               /\ net_client_list' = <<w1>>)]_vars

\* the only client, without size hints, fills the window area below the bar
OnlyWindowBelowBar ==
    /\ Len(monitors) = 1
    /\ monitors[1].showbar /\ monitors[1].topbar
    /\ monitors[1].masters_count = 1
    /\ monitors[1].gappx = 0
    /\ \E w1 \in TiledWindows :
          /\ DOMAIN clients = {w1}
          /\ clients[w1].minh = 0
          /\ clients[w1].x = 0
          /\ clients[w1].y = bh
          /\ clients[w1].w = 1920 - 2 * borderpx
          /\ clients[w1].h = 1080 - bh - 2 * borderpx
          /\ net_client_list = <<w1>>

-----------------------------------------------------------------------------
\* C13: on a selected monitor that views exactly tag 0 and has a selected
\* client, where no other client of the monitor carries both tag 0 and
\* tag 1, view(1) followed by view(0) leaves the viewed tag-set {0} and the
\* same client selected.
ViewAwayAndBack ==
    LET s == State("tile")
        i == selected_monitor
        sel == monitors[i].selected_client
    IN  (/\ current_tags(monitors[i]) = {0}
         /\ sel # NULL
         /\ \A c \in DOMAIN clients :
               (c # sel /\ clients[c].mon = i) => ~({0, 1} \subseteq clients[c].tags))
        => \A there \in Shl1(1), back \in Shl1(0) :
              LET r == view(view(s, 1, there), 0, back)
              IN  /\ current_tags(r.mons[i]) = {0}
                  /\ r.mons[i].selected_client = sel
                  /\ r.selmon = i

\* tag 0 is viewed again after a view of tag 1, the selected client has only
\* tag 0 and the other client only tag 1
BackOnFirstTagBesideSecond ==
    LET m == monitors[selected_monitor]
    IN  /\ current_tags(m) = {0}
        /\ m.tagset[2 - m.selected_tags_set] = {1}
        /\ m.selected_client # NULL
        /\ clients[m.selected_client].tags = {0}
        /\ \E c \in DOMAIN clients : clients[c].tags = {1}

\* C13 as stated: whenever tag 0 is viewed and a client is selected, view(1)
\* followed by view(0) leaves the viewed tag-set {0} and the same client
\* selected.
ViewAwayAndBackAlways ==
    LET s == State("tile")
        i == selected_monitor
        sel == monitors[i].selected_client
    IN  (current_tags(monitors[i]) = {0} /\ sel # NULL)
        => \A there \in Shl1(1), back \in Shl1(0) :
              LET r == view(view(s, 1, there), 0, back)
              IN  /\ current_tags(r.mons[i]) = {0}
                  /\ r.mons[i].selected_client = sel

-----------------------------------------------------------------------------
-----------------------------------------------------------------------------
\* C15: with the rule for class "Gimp" (tags 1 << 3, floating), a window
\* whose class contains "Gimp" leaves applyrules with tags {3} and
\* isfloating, whatever the tag-set of the monitor, and keeps them through
\* manage; after manage no monitor has it as its selected client unless the
\* selected monitor views tag 3.
RuleSetsTagsAndFloating ==
    \A w \in Windows \ DOMAIN clients :
        \A wa \in WindowAttrs, class \in {Gimp, GimpVersioned} :
            LET s == State("tile")
                win == WinInfo(NULL, class, FALSE, NoHints)
                c == manage_client(s, new_client(wa), win)
                r == manage(s, w, wa, win)
            IN  /\ c.tags = {3}
                /\ c.isfloating
                /\ r.cl[w].tags = {3}
                /\ r.cl[w].isfloating
                /\ 3 \notin current_tags(monitors[selected_monitor])
                     => \A i \in 1..Len(r.mons) : r.mons[i].selected_client # w

\* a client of the rule, floating on tag 3 and not selected, on a monitor
\* that does not view tag 3; it is the head of the client list and the
\* older client stays selected
RuleClientOutOfView ==
    \E w, v \in DOMAIN clients :
        LET m == monitors[clients[w].mon]
        IN  /\ clients[w].tags = {3}
            /\ clients[w].isfloating
            /\ 3 \notin current_tags(m)
            /\ clients[w].mon = selected_monitor
            /\ m.clients = <<w, v>>
            /\ m.selected_client = v

-----------------------------------------------------------------------------
\* C16: for a tag index i, view(i) followed by view(i) leaves the selected
\* monitor viewing {i}: the second call returns at once.  The viewed tag-set
\* is the one before the two calls only if that was {i}; otherwise the
\* former tag-set is kept in the other slot.  For an index past the tags
\* (request 0) each call swaps the slots and two calls restore the tag-set.
ViewTwiceViewsTheTag ==
    LET s == State("tile")
        i == selected_monitor
        before == current_tags(monitors[i])
    IN  /\ \A index \in TagArgs : \A shl \in Shl1(index) :
              LET m == view(view(s, index, shl), index, shl).mons[i]
              IN  /\ current_tags(m) = {index}
                  /\ before # {index} => m.tagset[2 - m.selected_tags_set] = before
                  /\ current_tags(m) = before <=> before = {index}
        /\ \A shl \in Shl1(NumTags) :
              current_tags(view(view(s, NumTags, shl), NumTags, shl).mons[i]) = before

\* a tag was viewed from a view of two tags, which the other slot keeps
ViewedOneTagFromTwo ==
    LET m == monitors[selected_monitor]
    IN  /\ current_tags(m) = {1}
        /\ m.tagset[2 - m.selected_tags_set] = {0, 1}

\* C16 as stated: for every tag index and every tag-set viewed, view(i)
\* followed by view(i) leaves the tag-set viewed before the two calls.
ViewTwiceRestoresTagset ==
    LET s == State("tile")
        i == selected_monitor
    IN  \A index \in TagArgs : \A shl \in Shl1(index) :
            current_tags(view(view(s, index, shl), index, shl).mons[i])
              = current_tags(monitors[i])

-----------------------------------------------------------------------------
\* C17: when toggletag(i) changes the tags of the selected client c, c is
\* still selected afterwards and toggletag(i) is applied again, the second
\* call is not refused and c has the tags it had before the two calls.
ToggleTagTwice ==
    LET s == State("tile")
        c == monitors[selected_monitor].selected_client
    IN  c # NULL =>
        \A index \in TagArgs : \A shl \in Shl1(index) :
            LET s1 == toggletag(s, index, shl)
                s2 == toggletag(s1, index, shl)
            IN  (/\ s1.cl[c].tags # clients[c].tags
                 /\ s1.mons[s1.selmon].selected_client = c)
                => /\ s2.cl[c].tags # s1.cl[c].tags
                   /\ s2.cl[c].tags = clients[c].tags

\* the selected client lost its first tag and got another by two toggles,
\* under a view of both tags
SelectedClientMovedByToggles ==
    LET m == monitors[selected_monitor]
    IN  /\ m.selected_client # NULL
        /\ current_tags(m) = {0, 1}
        /\ clients[m.selected_client].tags = {1}

-----------------------------------------------------------------------------
\* C18: for every client and every rectangle asked, applysizehints gives
\* its own result back when it is applied to that result, the client being
\* unchanged.
SizeHintsIdempotent ==
    \A cw \in DOMAIN clients : \A r \in Rectangles, interact \in BOOLEAN :
        LET s == State("tile")
            a == applysizehints(s, cw, r.x, r.y, r.w, r.h, interact)
            b == applysizehints(s, cw, a.x, a.y, a.w, a.h, interact)
        IN  b.x = a.x /\ b.y = a.y /\ b.w = a.w /\ b.h = a.h

-----------------------------------------------------------------------------
\* C19: for every client and every rectangle asked, the rectangle that
\* applysizehints returns is at least bh wide and bh high.
SizeHintsKeepBarHeight ==
    \A cw \in DOMAIN clients : \A r \in Rectangles, interact \in BOOLEAN :
        LET a == applysizehints(State("tile"), cw, r.x, r.y, r.w, r.h, interact)
        IN  a.w >= bh /\ a.h >= bh

-----------------------------------------------------------------------------
\* C20: when the second monitor disappears, its clients are clients of the
\* first monitor afterwards, and any two of them are in the focus stack of
\* the first monitor in the order they had in the focus stack of the
\* removed monitor.
MigrationKeepsStackOrder ==
    [][(Len(monitors) = 2 /\ Len(monitors') = 1) =>
          LET old == monitors[2].stack
              new == monitors'[1].stack
              Pos(seq, c) == CHOOSE k \in 1..Len(seq) : seq[k] = c
          IN  \A a, b \in SeqSet(old) :
                  /\ clients'[a].mon = 1
                  /\ a \in SeqSet(new)
                  /\ b \in SeqSet(new)
                  /\ Pos(old, a) < Pos(old, b) => Pos(new, a) < Pos(new, b)]_vars

-----------------------------------------------------------------------------
\* C21: in every reachable state a client whose size hints give the same
\* non-zero minimum and maximum size (isfixed) is floating.
FixedClientFloats ==
    \A cw \in DOMAIN clients : clients[cw].isfixed => clients[cw].isfloating

-----------------------------------------------------------------------------
\* C22: the mfact of every monitor is in [0.05, 0.95] in every reachable
\* state, whatever the arguments of the setmfact calls were.
MfactInRange ==
    \A i \in 1..Len(monitors) : monitors[i].mfact >= 5 /\ monitors[i].mfact <= 95

\* setmfact has moved mfact to the upper end of the range
MfactAtUpperEnd ==
    /\ monitors[selected_monitor].mfact = 95
    /\ \E cw \in DOMAIN clients : WIDTH(clients[cw]) = (1920 * 95) \div 100

-----------------------------------------------------------------------------
\* C23: setmfact(arg) on a monitor whose layout arranges takes as target the
\* old mfact + arg when arg < 1 and arg - 1 otherwise; the stored mfact
\* becomes the target if that is in [0.05, 0.95] and is left as it was if
\* the target is outside.  Where the layout does not arrange, nothing
\* changes.
SetMfactStoresTargetInRange ==
    \A f \in MfactArgs :
        LET s == State("tile")
            i == selected_monitor
            old == monitors[i].mfact
            target == IF f < 100 THEN old + f ELSE f - 100
            new == setmfact(s, f).mons[i].mfact
        IN  IF Arranges(current_layout(s, i)) /\ target >= 5 /\ target <= 95
            THEN new = target
            ELSE new = old

\* an absolute argument has set mfact to 0.27, where no sequence of the
\* differences leads from the default, and the master column follows
MfactSetAbsolutely ==
    /\ monitors[selected_monitor].mfact = 27
    /\ \E cw \in DOMAIN clients : WIDTH(clients[cw]) = (1920 * 27) \div 100

\* C23 as stated: the target is old mfact + arg when |arg| < 1 and arg - 1
\* otherwise, and the stored mfact is the target clamped to [0.05, 0.95].
SetMfactClampsTarget ==
    \A f \in MfactArgs :
        LET s == State("tile")
            i == selected_monitor
            old == monitors[i].mfact
            target == IF f > -100 /\ f < 100 THEN old + f ELSE f - 100
            new == setmfact(s, f).mons[i].mfact
        IN  Arranges(current_layout(s, i))
            => new = IF target < 5 THEN 5 ELSE IF target > 95 THEN 95 ELSE target

-----------------------------------------------------------------------------
\* C24: masters_count is at least 1 on every monitor in every reachable
\* state, and change_masters_count(+1 or -1) sets the count of the selected
\* monitor to the larger of old + delta and 1: decrementing at 1 leaves 1.
MastersCountAtLeastOne ==
    /\ [](\A i \in 1..Len(monitors) : monitors[i].masters_count >= 1)
    /\ [][\A delta \in Directions :
            keypress_change_masters_count(delta)
            => LET old == monitors[selected_monitor].masters_count
               IN  monitors'[selected_monitor].masters_count
                     = IF old + delta >= 1 THEN old + delta ELSE 1]_vars

\* two masters share the master column
TwoMastersInColumn ==
    LET m == monitors[1]
    IN  /\ m.masters_count = 2
        /\ Len(m.clients) = 3
        /\ clients[m.clients[1]].x = clients[m.clients[2]].x
        /\ clients[m.clients[1]].y < clients[m.clients[2]].y
        /\ clients[m.clients[3]].x > clients[m.clients[1]].x

-----------------------------------------------------------------------------
\* C25: unless the selected client is fullscreen while lockfullscreen is
\* set, in which case nothing changes, focusstack(+1) selects the visible
\* client that follows the selected one in the client list of the selected
\* monitor, the first visible one after the last; focusstack(-1) selects the
\* visible client before it, the last visible one before the first.  The
\* client list is left as it was, and focusstack(+1) followed by
\* focusstack(-1) selects the client selected before unless the client in
\* between is fullscreen.
FocusStackCycles ==
    LET s == State("tile")
        m == monitors[selected_monitor]
        sel == m.selected_client
        Visible(c) == ISVISIBLE(s, c)
        vis == SelectSeq(m.clients, Visible)
        n == Len(vis)
        k == CHOOSE j \in 1..n : vis[j] = sel
        next == vis[(k % n) + 1]
        prev == vis[((k + n - 2) % n) + 1]
        Selected(r) == r.mons[r.selmon].selected_client
    IN  sel # NULL
        => IF s.cl[sel].isfullscreen /\ lockfullscreen
           THEN \A dir \in Directions : focusstack(s, dir) = s
           ELSE /\ Selected(focusstack(s, 1)) = next
                /\ Selected(focusstack(s, -1)) = prev
                /\ \A dir \in Directions :
                      LET r == focusstack(s, dir)
                      IN  /\ r.mons[r.selmon].clients = m.clients
                          /\ r.selmon = s.selmon
                /\ ~(s.cl[next].isfullscreen /\ lockfullscreen)
                   => Selected(focusstack(focusstack(s, 1), -1)) = sel

\* the focus went from the first to the last client of the list, past a
\* client on a tag that is not viewed
FocusWrappedPastHidden ==
    LET m == monitors[1]
    IN  /\ Len(m.clients) = 3
        /\ m.selected_client = m.clients[3]
        /\ m.stack = <<m.clients[3], m.clients[1], m.clients[2]>>
        /\ clients[m.clients[2]].tags = {1}
        /\ current_tags(m) = {0}

\* C25 as stated: focusstack(+1) always selects the next visible client of
\* the client list and focusstack(-1) the previous one, wrapping around, and
\* focusstack(+1) followed by focusstack(-1) selects the original client.
FocusStackAlwaysMoves ==
    LET s == State("tile")
        m == monitors[selected_monitor]
        sel == m.selected_client
        Visible(c) == ISVISIBLE(s, c)
        vis == SelectSeq(m.clients, Visible)
        n == Len(vis)
        k == CHOOSE j \in 1..n : vis[j] = sel
        Selected(r) == r.mons[r.selmon].selected_client
    IN  sel # NULL
        => /\ Selected(focusstack(s, 1)) = vis[(k % n) + 1]
           /\ Selected(focusstack(s, -1)) = vis[((k + n - 2) % n) + 1]
           /\ Selected(focusstack(focusstack(s, 1), -1)) = sel

-----------------------------------------------------------------------------
\* C26: zoom changes nothing (client lists, focus stacks, selection,
\* rectangles) when the selected client is floating, when the current layout
\* of the selected monitor has no arrange function, and when no tiled client
\* other than the selected one is visible on the selected monitor.
ZoomWithoutEffect ==
    LET s == State("tile")
        m == monitors[selected_monitor]
        sel == m.selected_client
        others == {c \in SeqSet(m.clients) :
                      c # sel /\ ISVISIBLE(s, c) /\ ~clients[c].isfloating}
    IN  (\/ sel # NULL /\ clients[sel].isfloating
         \/ ~Arranges(current_layout(s, selected_monitor))
         \/ others = {})
        => zoom(s) = s

\* a floating client is selected behind two tiled ones, under a layout that
\* arranges
FloatingSelectedBehindTiled ==
    LET m == monitors[1]
    IN  /\ Len(m.clients) = 3
        /\ m.selected_client = m.clients[3]
        /\ clients[m.clients[3]].isfloating
        /\ ~clients[m.clients[1]].isfloating
        /\ ~clients[m.clients[2]].isfloating
        /\ current_layout(State("tile"), 1) = "tile"

-----------------------------------------------------------------------------
\* C27: a ConfigureRequest for a managed client that is not floating and
\* whose monitor's current layout arranges leaves the client's x, y, w, h
\* and border width as they were, whatever fields its value mask names and
\* whichever monitor is selected.
ConfigureRequestOnlyAcknowledged ==
    LET s == State("tile")
    IN  \A w \in DOMAIN clients, ev \in ConfigureRequests :
          (/\ window_to_client(s, w) # NULL
           /\ ~clients[w].isfloating
           /\ Arranges(current_layout(s, clients[w].mon)))
          => LET c == configurerequest(s, w, ev).cl[w]
             IN  /\ c.x = clients[w].x /\ c.y = clients[w].y
                 /\ c.w = clients[w].w /\ c.h = clients[w].h
                 /\ c.border_width = clients[w].border_width

-----------------------------------------------------------------------------
\* C28: an UnmapNotify with send_event set for a managed window leaves the
\* client managed and the client lists, focus stacks, selection and
\* _NET_CLIENT_LIST as they were (WM_STATE, which it sets, is a property of
\* the window); an UnmapNotify without send_event and a DestroyNotify
\* unmanage the client.
SyntheticUnmapKeepsClient ==
    LET s == State("tile")
        Gone(r, w) ==
            /\ window_to_client(r, w) = NULL
            /\ \A i \in MonIdx(r) :
                  /\ w \notin SeqSet(r.mons[i].stack)
                  /\ r.mons[i].selected_client # w
            /\ w \notin SeqSet(r.ncl)
    IN  \A w \in DOMAIN clients :
          window_to_client(s, w) # NULL
          => /\ LET r == unmapnotify(s, w, TRUE)
                IN  /\ window_to_client(r, w) = w
                    /\ r.mons = s.mons
                    /\ r.cl = s.cl
                    /\ r.selmon = s.selmon
                    /\ r.ncl = s.ncl
             /\ Gone(unmapnotify(s, w, FALSE), w)
             /\ Gone(destroynotify(s, w), w)

\* two clients on the selected monitor, the selected one in front: an
\* UnmapNotify from the server for it hands the selection to the other one
UnmapWouldPassSelection ==
    LET s == State("tile")
        m == monitors[selected_monitor]
    IN  /\ Len(m.stack) = 2
        /\ m.selected_client = m.stack[1]
        /\ ISVISIBLE(s, m.stack[2])
        /\ unmapnotify(s, m.stack[1], FALSE).mons[selected_monitor].selected_client
             = m.stack[2]
        /\ unmapnotify(s, m.stack[1], TRUE).mons[selected_monitor].selected_client
             = m.stack[1]

-----------------------------------------------------------------------------
\* C29: between event handlers, and between the steps of cleanup, the X
\* server is not grabbed and the installed error handler is xerror, not
\* xerrordummy: unmanage of a window not destroyed and the XKillClient branch
\* of kill_selected_client release the grab and reinstall xerror before they
\* return.
ServerNeverLeftGrabbed ==
    /\ ~server_grabbed
    /\ error_handler = "xerror"

\* cleanup has unmanaged the clients of the first monitor, windows that are
\* not destroyed, and those of the second monitor are still to go
CleanupUnmanagedFirstMonitor ==
    /\ pc = "cleanup"
    /\ Len(monitors) = 2
    /\ monitors[1].clients = <<>>
    /\ monitors[2].stack # <<>>
    /\ ~server_grabbed

-----------------------------------------------------------------------------
\* C30: once quit has cleared running, cleanup ends with every client
\* unmanaged and every monitor removed, and no monitor has a layout index
\* outside the tag range, so that no slot of layouts[] outside it is read or
\* written.
ShutdownStaysInTagRange ==
    /\ ~running
         => \A i \in 1..Len(monitors) : ~LayoutIndexOutOfRange(monitors[i])
    /\ pc = "exit"
         => /\ monitors = <<>>
            /\ DOMAIN clients = {}
            /\ net_client_list = <<>>

-----------------------------------------------------------------------------
-----------------------------------------------------------------------------
\* C32: after every handler _NET_ACTIVE_WINDOW names the window of the
\* selected client of the selected monitor when there is one and is absent
\* when there is none; it never names a window that is not managed.
ActiveWindowIsSelectedClient ==
    /\ net_active = monitors[selected_monitor].selected_client
    /\ net_active # NULL => window_to_client(State("tile"), net_active) # NULL

-----------------------------------------------------------------------------
\* C33: view(i) with a tag index i whose tag set differs from the current
\* tag set T leaves {i} in the slot in use and T in the other slot, so that
\* a view with an index that names no tag (NumTags, ~0), which only swaps the
\* slots, shows T again; view(i) with {i} = T changes neither slot, nor the
\* slot in use, nor the layout index.
ViewKeepsPreviousTagsInOtherSlot ==
    LET s == State("tile")
        i == selected_monitor
        m == monitors[i]
        T == current_tags(m)
    IN  \A index \in TagArgs : \A shl \in Shl1(index) :
          LET r == view(s, index, shl)
              m1 == r.mons[i]
          IN  IF {index} # T
              THEN /\ current_tags(m1) = {index}
                   /\ m1.selected_tags_set = 1 - m.selected_tags_set
                   /\ m1.tagset[m.selected_tags_set + 1] = T
                   /\ \A past \in {NumTags, -1} : \A none \in Shl1(past) :
                         current_tags(view(r, past, none).mons[i]) = T
              ELSE /\ m1.tagset = m.tagset
                   /\ m1.selected_tags_set = m.selected_tags_set
                   /\ m1.current_layout_index = m.current_layout_index

\* the second tag was viewed from a view of two tags, which the other slot
\* keeps
ViewedSecondTagFromBoth ==
    /\ monitors[1].selected_tags_set = 1
    /\ monitors[1].tagset = <<{0, 1}, {1}>>
    /\ monitors[1].current_layout_index = 1

-----------------------------------------------------------------------------
\* C34: with two monitors or more and a selected client c, tagmon(dir) puts
\* c at the head of the client list and of the focus stack of the monitor in
\* direction dir, with the tags that monitor shows; c is on no list of the
\* monitor it left, which stays selected and selects the first visible client
\* of its focus stack, or none.  With one monitor or without a selected
\* client nothing changes.
TagmonMovesSelectedClient ==
    LET s == State("tile")
        src == selected_monitor
        c == monitors[src].selected_client
    IN  \A dir \in Directions :
          LET r == tagmon(s, dir)
          IN  IF c = NULL \/ Len(monitors) < 2 THEN r = s
              ELSE LET to == dirtomon(s, dir)
                   IN  /\ to # src
                       /\ Head(r.mons[to].clients) = c
                       /\ Head(r.mons[to].stack) = c
                       /\ r.cl[c].mon = to
                       /\ r.cl[c].tags = current_tags(r.mons[to])
                       /\ c \notin SeqSet(r.mons[src].clients)
                       /\ c \notin SeqSet(r.mons[src].stack)
                       /\ r.selmon = src
                       /\ r.mons[src].selected_client
                            = find_first_visible_client_in_stack(r, r.mons[src].stack)

\* a client was sent from the first monitor, which stays selected and
\* selects the client left on it, to the second monitor, which had none
ClientSentToEmptyMonitor ==
    /\ Len(monitors) = 2
    /\ selected_monitor = 1
    /\ Len(monitors[2].clients) = 1
    /\ monitors[2].stack = monitors[2].clients
    /\ monitors[2].selected_client = NULL
    /\ Len(monitors[1].clients) = 1
    /\ monitors[1].selected_client = monitors[1].clients[1]

-----------------------------------------------------------------------------
\* C35: a motion event taken by the loop of movemouse changes the floating
\* flag of no client but the dragged one, and when it changes a client at all
\* the dragged client is floating afterwards, also when a MapRequest was
\* handled by the loop since the drag began.
DragFloatsDraggedClientOnly ==
    [][\A ptr \in DragSpots :
          movemouse_motion(ptr)
          => /\ \A w \in DOMAIN clients \ {drag.c} :
                   clients'[w].isfloating = clients[w].isfloating
             /\ clients' # clients => clients'[drag.c].isfloating]_vars

-----------------------------------------------------------------------------
\* C36: whatever the stacking order of the bar window and the client windows
\* was, after restack(m) on a monitor with a selected client and a layout
\* that arranges, the visible tiled clients of m lie directly below the bar
\* window, one directly below the other, in the order of the focus stack of
\* m; a floating selected client is on top.
RestackOrdersTiledBelowBar ==
    LET s == State("tile")
        i == selected_monitor
        m == monitors[i]
        sel == m.selected_client
        windows == {0} \cup DOMAIN clients
        n == Cardinality(windows)
        orders == {o \in [1..n -> windows] : \A a, b \in 1..n : o[a] = o[b] => a = b}
        Tiled(c) == ~clients[c].isfloating /\ ISVISIBLE(s, c)
        tiled == SelectSeq(m.stack, Tiled)
    IN  (sel # NULL /\ Arranges(current_layout(s, i)))
        => \A order \in orders :
             LET r == restack(s, i, order, 0)
                 bar == CHOOSE k \in 1..n : r[k] = 0
             IN  /\ \A k \in 1..Len(tiled) : r[bar + k] = tiled[k]
                 /\ clients[sel].isfloating => r[1] = sel
                 /\ {r[k] : k \in 1..n} = windows

\* a floating client is selected, two tiled clients follow it in the focus
\* stack in the order opposite to the client list
FloatingOverTwoTiledInStack ==
    LET m == monitors[1]
    IN  /\ Len(m.stack) = 3
        /\ clients[m.stack[1]].isfloating
        /\ ~clients[m.stack[2]].isfloating
        /\ ~clients[m.stack[3]].isfloating
        /\ m.selected_client = m.stack[1]
        /\ m.clients = <<m.stack[1], m.stack[3], m.stack[2]>>
        /\ current_layout(State("tile"), 1) = "tile"
        /\ restack(State("tile"), 1, <<m.stack[3], m.stack[2], 0, m.stack[1]>>, 0)
             = <<m.stack[1], 0, m.stack[2], m.stack[3]>>

-----------------------------------------------------------------------------
\* C37: in every reachable state every monitor's current_layout_index is
\* smaller than the number of tags, so that current_layout and set_layout
\* address a slot of layouts[]; view keeps it so for every argument.
LayoutIndexAddressesTagSlot ==
    \A i \in 1..Len(monitors) : ULess(monitors[i].current_layout_index, NumTags)

-----------------------------------------------------------------------------
\* C38: after every handler the selected client of the selected monitor is
\* NULL exactly when no client of that monitor is visible under its current
\* tags, and is the head of the focus stack of that monitor otherwise.
SelectionIsHeadOfFocusStack ==
    LET s == State("tile")
        m == monitors[selected_monitor]
        shown == {c \in DOMAIN clients :
                    clients[c].mon = selected_monitor /\ ISVISIBLE(s, c)}
    IN  /\ m.selected_client = NULL <=> shown = {}
        /\ m.selected_client # NULL => m.selected_client = Head(m.stack)

-----------------------------------------------------------------------------
\* C39: no reference dangles: the monitor list is not empty, the selected
\* monitor is one of its members, and the selected client of every monitor
\* is NULL or a managed client found in the client list and in the focus
\* stack of that same monitor.
NoDanglingSelection ==
    /\ monitors # <<>>
    /\ selected_monitor \in 1..Len(monitors)
    /\ \A i \in 1..Len(monitors) :
         LET sel == monitors[i].selected_client
         IN  sel # NULL =>
               /\ sel \in DOMAIN clients
               /\ clients[sel].mon = i
               /\ sel \in SeqSet(monitors[i].clients)
               /\ sel \in SeqSet(monitors[i].stack)

\* the second monitor went away while it was selected; the client selected
\* on the monitor left was last placed on the second screen
SelectedClientOfRemovedMonitor ==
    LET sel == monitors[1].selected_client
    IN  /\ Len(monitors) = 1
        /\ sel # NULL
        /\ clients[sel].oldx >= ScreenB.x
        /\ Len(monitors[1].stack) = 2

-----------------------------------------------------------------------------
\* C40: after updategeom with k >= 1 screens of a geometry of their own the
\* monitor list has k monitors, the screen rectangle of the i-th monitor is
\* the rectangle of the i-th such screen, whether the number of screens grew,
\* stayed or shrank, and updategeom returns dirty whenever the monitor list
\* or a rectangle changed.
UpdategeomFollowsScreens ==
    \A info \in GeomConfigs, ptr \in PointerSpots :
        LET s == State("tile")
            unique == unique_screens(info, <<>>)
            r == updategeom(s, info, ptr)
        IN  /\ Len(r.s.mons) = Len(unique)
            /\ \A i \in 1..Len(unique) :
                 LET m == r.s.mons[i]
                 IN  [x |-> m.mx, y |-> m.my, w |-> m.mw, h |-> m.mh] = unique[i]
            /\ r.s.mons # s.mons => r.dirty
====
